---- MODULE Spec2Model ----
(***************************************************************************)
(* Transitive dependency aggregation of poetry's Solver                    *)
(* (src/src/poetry/puzzle/solver.py): the depth-first walk over the        *)
(* solved packages, the aggregation of the nodes of a package, the marker  *)
(* propagation, the folding of feature packages into their base package   *)
(* and the merge of the results of override reruns.                        *)
(***************************************************************************)
EXTENDS Integers, Sequences, FiniteSets, TLC

VARIABLES
    pc,          \* position in Solver._aggregate_solved_packages / the merge loop
    packages,    \* the solver's flat output list (list[Package])
    requires,    \* Package -> list[Dependency] (Package.requires, mutable)
    pkgOptional, \* Package -> package.optional, once aggregate_package_nodes set it
    dfs,         \* state of depth_first_search: nodes, back edges, marker table
    nodeDepth,   \* node id -> PackageNode.depth
    nodeOptional,\* node id -> PackageNode.optional
    resultOrder, \* insertion order of the dict `results`
    results,     \* Package -> TransitivePackageInfo (depth, groups, markers)
    cm,          \* loop state of calculate_markers
    foldIdx,     \* index of the outer loop of the feature merge
    solvedOrder, \* insertion order of the dict `solved_packages`
    run,         \* which call of _aggregate_solved_packages this is (1 or 2)
    firstRun,    \* what the first call returned (order and infos)
    mg,          \* state of the override merge (merge_packages_from_override)
    built        \* a call of PackageNode(...): its arguments and what it gave

vars == << pc, packages, requires, pkgOptional, dfs, nodeDepth, nodeOptional,
           resultOrder, results, cm, foldIdx, solvedOrder, run, firstRun, mg,
           built >>

(***************************************************************************)
(* Bounds of the model.                                                    *)
(***************************************************************************)
\* how many passes of the outer loop of calculate_markers are counted
MaxPasses == 4
\* how many dependencies the project (root) package declares at most
MaxRootDeps == 2
\* how many dependencies a solved package declares at most
MaxDeps == 2
\* how many overrides one OverrideNeeded carries at most
MaxOverrides == 3

(***************************************************************************)
(* Generic helpers.                                                        *)
(***************************************************************************)
Max(S) == CHOOSE x \in S : \A y \in S : y <= x

Range(s) == { s[i] : i \in 1..Len(s) }

\* dict assignment m[k] = v
Put(m, k, v) == [x \in (DOMAIN m) \cup {k} |-> IF x = k THEN v ELSE m[x]]

\* dict.get(k, default) / defaultdict access
Get(m, k, default) == IF k \in DOMAIN m THEN m[k] ELSE default

EmptyMap == [x \in {} |-> 0]

\* the elements of s without later repetitions (insertion order of a dict's keys)
RECURSIVE Dedup(_)
Dedup(s) ==
    IF s = << >> THEN << >>
    ELSE LET rest == Dedup(SubSeq(s, 1, Len(s) - 1))
             last == s[Len(s)]
         IN IF last \in Range(rest) THEN rest ELSE Append(rest, last)

(***************************************************************************)
(* The marker algebra (poetry.core.version.markers), as the set of         *)
(* environments a marker accepts. An environment gives python_version,     *)
(* sys_platform and extra.                                                 *)
(***************************************************************************)
PyVersions == {"3.10", "3.11"}
Platforms == {"win32", "linux"}
ExtraValues == {"", "x"}
\* the eight environments, numbered; each gives the three variables
Env == 0..7
EnvPy(e) == IF e % 2 = 0 THEN "3.10" ELSE "3.11"
EnvPlatform(e) == IF (e \div 2) % 2 = 0 THEN "win32" ELSE "linux"
EnvExtra(e) == IF e \div 4 = 0 THEN "" ELSE "x"

AnyMarker == Env
EmptyMarker == {}
MarkerIntersect(a, b) == a \cap b
MarkerUnion(a, b) == a \cup b
\* marker.without_extras(): the constraint on `extra` is dropped
WithoutExtras(m) ==
    { e \in Env : \E f \in m : EnvPy(f) = EnvPy(e) /\ EnvPlatform(f) = EnvPlatform(e) }
\* parse_marker('extra == "X1" or extra == "X2" ...')
ExtraMarker(extras) == { e \in Env : EnvExtra(e) \in extras }

PyMarker(v) == { e \in Env : EnvPy(e) = v }
PlatformMarker(p) == { e \in Env : EnvPlatform(e) = p }

(***************************************************************************)
(* Packages and dependencies (poetry.core.packages).                       *)
(* A Package is identified by name, version and features; a Dependency     *)
(* names a package (name and features), constrains its version and         *)
(* carries marker, groups, the optional flag and in_extras.                *)
(***************************************************************************)
Pkg(n, v, f) == [name |-> n, version |-> v, features |-> f]

RootPackage == Pkg("root", 1, {})

\* Package.is_root(): true of the ProjectPackage only
IsRoot(p) == p = RootPackage

Dep(n, f, c, m, g, o, x) ==
    [name |-> n, features |-> f, constraint |-> c, marker |-> m,
     groups |-> g, optional |-> o, in_extras |-> x]

\* pkg.complete_name == dependency.complete_name and pkg.satisfies(dependency)
Matches(pkg, dependency) ==
    /\ pkg.name = dependency.name
    /\ pkg.features = dependency.features
    /\ pkg.version \in dependency.constraint

\* Dependency.__eq__: same package (name, features) and same constraint;
\* marker, groups and the optional flag take no part
DepEq(d1, d2) ==
    /\ d1.name = d2.name
    /\ d1.features = d2.features
    /\ d1.constraint = d2.constraint

(***************************************************************************)
(* PackageNode.                                                            *)
(***************************************************************************)
\* lines 300-305 with the default group added to the groups of the dependency
PackageNode_WithMain(package, previous, dep, marker) ==
    [ package  |-> package,
      dep      |-> dep,
      marker   |-> IF marker = << >> THEN AnyMarker ELSE marker[1],
      groups   |-> IF ~previous THEN {}
                   ELSE IF dep # << >> THEN dep[1].groups \cup {"main"}
                   ELSE {},
      optional |-> IF ~previous THEN TRUE
                   ELSE IF dep # << >> THEN dep[1].optional
                   ELSE TRUE,
      error    |-> previous /\ dep = << >> ]

\* lines 302-309 with the dependency looked at before the predecessor
PackageNode_DepFirst(package, previous, dep, marker) ==
    [ package  |-> package,
      dep      |-> dep,
      marker   |-> IF marker = << >> THEN AnyMarker ELSE marker[1],
      groups   |-> IF dep # << >> THEN dep[1].groups ELSE {},
      optional |-> IF dep # << >> THEN dep[1].optional ELSE TRUE,
      error    |-> previous /\ dep = << >> ]

\* PackageNode.__init__: previous is a flag, dep and marker are << >> (None)
\* or a one-element sequence
PackageNode(package, previous, dep, marker) ==
    [ package  |-> package,
      dep      |-> dep,
      marker   |-> IF marker = << >> THEN AnyMarker ELSE marker[1],
      groups   |-> IF ~previous THEN {}
                   ELSE IF dep # << >> THEN dep[1].groups
                   ELSE {},
      optional |-> IF ~previous THEN TRUE
                   ELSE IF dep # << >> THEN dep[1].optional
                   ELSE TRUE,
      error    |-> previous /\ dep = << >> ]

\* line 312 with the optional flag left out of the id
NodeId_NoOptional(node) ==
    [package |-> node.package, groups |-> node.groups, optional |-> TRUE]

\* DFSNode.id: (repr(package), groups, optional)
NodeId(node) ==
    [package |-> node.package, groups |-> node.groups, optional |-> node.optional]

\* the marker reachable() gives a child
ChildMarker(node, dependency) ==
    IF IsRoot(node.package) /\ dependency.in_extras # {}
    THEN MarkerIntersect(dependency.marker, ExtraMarker(dependency.in_extras))
    ELSE dependency.marker

\* line 339 with the groups of the dependency of the edge added to the
\* groups of the dependency handed to the child
ChildDep_EdgeGroups(node, dependency) ==
    IF node.dep # << >>
    THEN << [node.dep[1] EXCEPT !.groups = @ \cup dependency.groups] >>
    ELSE << dependency >>

\* line 339 with the dependency of the edge handed to the child
ChildDep_Edge(node, dependency) == << dependency >>

\* the dependency reachable() hands to a child: self.dep or dependency
ChildDep(node, dependency) ==
    IF node.dep # << >> THEN node.dep ELSE << dependency >>

\* PackageNode.reachable(): for each dependency, for each package of the list
Reachable(node, pkgs, reqs) ==
    LET deps == reqs[node.package]
        np   == Len(pkgs)
        all  == [k \in 1..(Len(deps) * np) |->
                    << ((k - 1) \div np) + 1, ((k - 1) % np) + 1 >>]
        Hit(pr) == Matches(pkgs[pr[2]], deps[pr[1]])
        sel  == SelectSeq(all, Hit)
    IN [k \in 1..Len(sel) |->
            PackageNode(pkgs[sel[k][2]], TRUE,
                        ChildDep(node, deps[sel[k][1]]),
                        << ChildMarker(node, deps[sel[k][1]]) >>)]

(***************************************************************************)
(* depth_first_search / dfs_visit, with the recursion as an explicit stack *)
(* of frames (node, its children, index of the next child).                *)
(***************************************************************************)
DfsInit ==
    [ stack |-> << >>, visited |-> {}, sorted_nodes |-> << >>,
      back_edges |-> EmptyMap, markers |-> EmptyMap, expanded |-> << >> ]

\* lines 276-280 with the marker of the child taken as it is on every edge
EdgeMarker_KeepExtras(node, out_neighbor) == out_neighbor.marker

\* the marker dfs_visit records for the edge node -> out_neighbor
EdgeMarker(node, out_neighbor) ==
    IF IsRoot(node.package) THEN out_neighbor.marker
    ELSE WithoutExtras(out_neighbor.marker)

\* lines 270-272 with the package alone as the key of the visited set
DfsEnter_ByPackage(d, node, pkgs, reqs) ==
    IF \E v \in d.visited : v.package = node.package THEN d
    ELSE [d EXCEPT !.visited = @ \cup {NodeId(node)},
                   !.expanded = Append(@, NodeId(node)),
                   !.stack = Append(@, [node |-> node,
                                        children |-> Reachable(node, pkgs, reqs),
                                        i |-> 1])]

\* entry of dfs_visit(node): return at once when visited, else expand
DfsEnter(d, node, pkgs, reqs) ==
    IF NodeId(node) \in d.visited THEN d
    ELSE [d EXCEPT !.visited = @ \cup {NodeId(node)},
                   !.expanded = Append(@, NodeId(node)),
                   !.stack = Append(@, [node |-> node,
                                        children |-> Reachable(node, pkgs, reqs),
                                        i |-> 1])]

\* lines 274-281 with the node appended to sorted_nodes on exit
DfsStep_Append(d, pkgs, reqs) ==
    LET top  == d.stack[Len(d.stack)]
        node == top.node
    IN IF top.i <= Len(top.children)
       THEN LET out == top.children[top.i]
                d1  == [d EXCEPT
                          !.back_edges = Put(@, NodeId(out),
                              Append(Get(@, NodeId(out), << >>), NodeId(node))),
                          !.markers = Put(@, out.package,
                              Put(Get(@, out.package, EmptyMap), node.package,
                                  EdgeMarker(node, out))),
                          !.stack[Len(d.stack)].i = top.i + 1]
            IN DfsEnter(d1, out, pkgs, reqs)
       ELSE [d EXCEPT !.sorted_nodes = Append(@, NodeId(node)),
                      !.stack = SubSeq(@, 1, Len(@) - 1)]

\* lines 276-280 with the marker united with the entry the edge already has
DfsStep_Union(d, pkgs, reqs) ==
    LET top  == d.stack[Len(d.stack)]
        node == top.node
    IN IF top.i <= Len(top.children)
       THEN LET out == top.children[top.i]
                d1  == [d EXCEPT
                          !.back_edges = Put(@, NodeId(out),
                              Append(Get(@, NodeId(out), << >>), NodeId(node))),
                          !.markers = Put(@, out.package,
                              Put(Get(@, out.package, EmptyMap), node.package,
                                  MarkerUnion(
                                      Get(Get(@, out.package, EmptyMap),
                                          node.package, EmptyMarker),
                                      EdgeMarker(node, out)))),
                          !.stack[Len(d.stack)].i = top.i + 1]
            IN DfsEnter(d1, out, pkgs, reqs)
       ELSE [d EXCEPT !.sorted_nodes = << NodeId(node) >> \o @,
                      !.stack = SubSeq(@, 1, Len(@) - 1)]

\* one iteration of the loop over node.reachable(), or the insert on exit
DfsStep(d, pkgs, reqs) ==
    LET top  == d.stack[Len(d.stack)]
        node == top.node
    IN IF top.i <= Len(top.children)
       THEN LET out == top.children[top.i]
                d1  == [d EXCEPT
                          !.back_edges = Put(@, NodeId(out),
                              Append(Get(@, NodeId(out), << >>), NodeId(node))),
                          !.markers = Put(@, out.package,
                              Put(Get(@, out.package, EmptyMap), node.package,
                                  EdgeMarker(node, out))),
                          !.stack[Len(d.stack)].i = top.i + 1]
            IN DfsEnter(d1, out, pkgs, reqs)
       ELSE [d EXCEPT !.sorted_nodes = << NodeId(node) >> \o @,
                      !.stack = SubSeq(@, 1, Len(@) - 1)]

RECURSIVE DfsRun(_, _, _)
DfsRun(d, pkgs, reqs) ==
    IF d.stack = << >> THEN d ELSE DfsRun(DfsStep(d, pkgs, reqs), pkgs, reqs)

\* dfs_visit(source, ...) run to its end
DfsVisit(source, pkgs, reqs) ==
    DfsRun(DfsEnter(DfsInit, source, pkgs, reqs), pkgs, reqs)

\* lines 349-355 with the test of the base names the wrong way round
Visit_Inverted(id, parents, depth) ==
    1 + Max({ IF parents[k].package.name = id.package.name
              THEN depth[parents[k]] ELSE depth[parents[k]] - 1
              : k \in 1..Len(parents) } \cup {-2})

\* lines 349-355 with a parent of the same base name counted like any other
Visit_NoSelfDiscount(id, parents, depth) ==
    1 + Max({ depth[parents[k]] : k \in 1..Len(parents) } \cup {-2})

\* PackageNode.visit(parents): the depth from the depths the parents hold now
Visit(id, parents, depth) ==
    1 + Max({ IF parents[k].package.name # id.package.name
              THEN depth[parents[k]] ELSE depth[parents[k]] - 1
              : k \in 1..Len(parents) } \cup {-2})

\* the loop `for node in topo_sorted_nodes: node.visit(back_edges[node.id])`
RECURSIVE VisitFrom(_, _, _, _)
VisitFrom(i, sorted, back, depth) ==
    IF i > Len(sorted) THEN depth
    ELSE VisitFrom(i + 1, sorted, back,
                   [depth EXCEPT ![sorted[i]] =
                       Visit(sorted[i], Get(back, sorted[i], << >>), depth)])

VisitAll(sorted, back) ==
    VisitFrom(1, sorted, back, [id \in Range(sorted) |-> -1])

\* combined_topo_sorted_nodes: the nodes bucketed by node.name (repr(package)),
\* the buckets in the order of their first node
\* lines 246-257 with node.base_name as the key of the buckets
CombinedNodes_ByBaseName(sorted) ==
    LET names == Dedup([k \in 1..Len(sorted) |-> sorted[k].package.name])
    IN [k \in 1..Len(names) |->
            SelectSeq(sorted, LAMBDA id : id.package.name = names[k])]

CombinedNodes(sorted) ==
    LET names == Dedup([k \in 1..Len(sorted) |-> sorted[k].package])
    IN [k \in 1..Len(names) |->
            SelectSeq(sorted, LAMBDA id : id.package = names[k])]

(***************************************************************************)
(* aggregate_package_nodes                                                 *)
(***************************************************************************)
\* line 367 with any() in the place of all()
AggregatePackageNodes_AnyOptional(nodes, depth, optional) ==
    [ package  |-> nodes[1].package,
      depth    |-> Max({ depth[nodes[k]] : k \in 1..Len(nodes) }),
      groups   |-> UNION { nodes[k].groups : k \in 1..Len(nodes) },
      optional |-> \E k \in 1..Len(nodes) : optional[nodes[k]] ]

\* lines 359-376 with the depth of the first node for the maximum
AggregatePackageNodes_FirstDepth(nodes, depth, optional) ==
    [ package  |-> nodes[1].package,
      depth    |-> depth[nodes[1]],
      groups   |-> UNION { nodes[k].groups : k \in 1..Len(nodes) },
      optional |-> \A k \in 1..Len(nodes) : optional[nodes[k]] ]

AggregatePackageNodes(nodes, depth, optional) ==
    [ package  |-> nodes[1].package,
      depth    |-> Max({ depth[nodes[k]] : k \in 1..Len(nodes) }),
      groups   |-> UNION { nodes[k].groups : k \in 1..Len(nodes) },
      optional |-> \A k \in 1..Len(nodes) : optional[nodes[k]] ]

\* results = dict(aggregate_package_nodes(nodes) for nodes in combined_nodes)
AggregateAll(combined, depth, optional) ==
    LET agg(k) == AggregatePackageNodes(combined[k], depth, optional)
    IN [ order |-> [k \in 1..Len(combined) |-> agg(k).package],
         info  |-> [p \in { agg(k).package : k \in 1..Len(combined) } |->
                      LET k == CHOOSE k \in 1..Len(combined) : agg(k).package = p
                      IN [depth |-> agg(k).depth, groups |-> agg(k).groups,
                          markers |-> EmptyMap]],
         optional |-> [p \in { agg(k).package : k \in 1..Len(combined) } |->
                      LET k == CHOOSE k \in 1..Len(combined) : agg(k).package = p
                      IN agg(k).optional] ]

(***************************************************************************)
(* calculate_markers                                                       *)
(***************************************************************************)
\* max_depth of calculate_markers
MaxDepth(order, info) == Max({ info[order[k]].depth : k \in 1..Len(order) } \cup {-1})

\* the order in which one pass handles the packages:
\* for depth in range(max_depth + 1): for package in packages_by_depth[depth]
RECURSIVE ByDepthFrom(_, _, _)
ByDepthFrom(d, order, info) ==
    IF d > MaxDepth(order, info) THEN << >>
    ELSE SelectSeq(order, LAMBDA p : info[p].depth = d)
         \o ByDepthFrom(d + 1, order, info)

RECURSIVE ByDepthDown(_, _, _)
ByDepthDown(d, order, info) ==
    IF d < 0 THEN << >>
    ELSE SelectSeq(order, LAMBDA p : info[p].depth = d)
         \o ByDepthDown(d - 1, order, info)

\* line 395 with the depths taken from the highest to the lowest
PassOrder_Descending(order, info) == ByDepthDown(MaxDepth(order, info), order, info)

PassOrder(order, info) == ByDepthFrom(0, order, info)

\* parent_info.groups != set(parent_info.markers)
Incomplete(parent_info) ==
    parent_info.groups # {} /\ parent_info.groups # DOMAIN parent_info.markers

\* lines 402-414 with the marker through the parent assigned, not united
AddParent_Assign(tm, groups, parent_info, m) ==
    IF parent_info.groups # {}
    THEN IF Incomplete(parent_info) THEN tm
         ELSE [g \in DOMAIN tm |->
                 IF g \in parent_info.groups
                 THEN MarkerIntersect(parent_info.markers[g], m)
                 ELSE tm[g]]
    ELSE [g \in DOMAIN tm |->
             IF g \in groups THEN m ELSE tm[g]]

\* what one parent adds to transitive_marker (lines 402-414)
AddParent(tm, groups, parent_info, m) ==
    IF parent_info.groups # {}
    THEN IF Incomplete(parent_info) THEN tm
         ELSE [g \in DOMAIN tm |->
                 IF g \in parent_info.groups
                 THEN MarkerUnion(tm[g], MarkerIntersect(parent_info.markers[g], m))
                 ELSE tm[g]]
    ELSE [g \in DOMAIN tm |->
             IF g \in groups THEN MarkerUnion(tm[g], m) ELSE tm[g]]

RECURSIVE AddParents(_, _, _, _, _)
AddParents(tm, groups, parents, edge, info) ==
    IF parents = {} THEN tm
    ELSE LET p == CHOOSE p \in parents : TRUE
         IN AddParents(AddParent(tm, groups, info[p], edge[p]),
                       groups, parents \ {p}, edge, info)

\* lines 397-415 without the assignment of line 415: the package keeps the
\* markers it had
CalcPackage_KeepMarkers(package, info, table) ==
    LET edge    == Get(table, package, EmptyMap)
        parents == DOMAIN edge
    IN [ keyError   |-> \E p \in parents : p \notin DOMAIN info,
         incomplete |-> \E p \in parents : p \in DOMAIN info /\ Incomplete(info[p]),
         markers    |-> info[package].markers ]

\* lines 397-415 with AnyMarker() for EmptyMarker() in line 399
CalcPackage_StartAny(package, info, table) ==
    LET edge    == Get(table, package, EmptyMap)
        parents == DOMAIN edge
        groups  == info[package].groups
        tm0     == [g \in groups |-> AnyMarker]
    IN [ keyError   |-> \E p \in parents :
                           \/ p \notin DOMAIN info
                           \/ /\ info[p].groups # {}
                              /\ ~Incomplete(info[p])
                              /\ ~(info[p].groups \subseteq groups),
         incomplete |-> \E p \in parents : p \in DOMAIN info /\ Incomplete(info[p]),
         markers    |-> IF \A p \in parents : p \in DOMAIN info
                        THEN AddParents(tm0, groups, parents, edge, info)
                        ELSE tm0 ]

\* the body of the loop over the packages of one depth (lines 397-415):
\* the new markers of `package`, whether a parent was incomplete, and whether
\* a lookup failed (packages[parent], transitive_marker[group])
CalcPackage(package, info, table) ==
    LET edge    == Get(table, package, EmptyMap)
        parents == DOMAIN edge
        groups  == info[package].groups
        tm0     == [g \in groups |-> EmptyMarker]
    IN [ keyError   |-> \E p \in parents :
                           \/ p \notin DOMAIN info
                           \/ /\ info[p].groups # {}
                              /\ ~Incomplete(info[p])
                              /\ ~(info[p].groups \subseteq groups),
         incomplete |-> \E p \in parents : p \in DOMAIN info /\ Incomplete(info[p]),
         markers    |-> IF \A p \in parents : p \in DOMAIN info
                        THEN AddParents(tm0, groups, parents, edge, info)
                        ELSE tm0 ]

CmInit(order, info) ==
    [ has_incomplete |-> TRUE, k |-> 0, passes |-> 0,
      order |-> PassOrder(order, info) ]

(***************************************************************************)
(* Merging feature packages with base packages (lines 185-211)             *)
(***************************************************************************)
RECURSIVE IndexOfDep(_, _, _)
\* list.index(dep) from position i on, 0 for ValueError
IndexOfDep(reqs, dep, i) ==
    IF i > Len(reqs) THEN 0
    ELSE IF DepEq(reqs[i], dep) THEN i
    ELSE IndexOfDep(reqs, dep, i + 1)

\* lines 196-209 with the dependency of the feature package added beside an
\* equal dependency of another marker
FoldDep_KeepBoth(base, baseReqs, dep) ==
    IF base.name = dep.name THEN baseReqs
    ELSE LET index == IndexOfDep(baseReqs, dep, 1)
         IN IF index = 0 THEN Append(baseReqs, dep)
            ELSE IF baseReqs[index].marker # dep.marker
                 THEN Append(baseReqs, dep)
                 ELSE baseReqs

\* lines 196-209 without the test of lines 197-198
FoldDep_NoSkip(base, baseReqs, dep) ==
    LET index == IndexOfDep(baseReqs, dep, 1)
    IN IF index = 0 THEN Append(baseReqs, dep)
       ELSE IF baseReqs[index].marker # dep.marker
            THEN [baseReqs EXCEPT ![index].marker = dep.marker]
            ELSE baseReqs

\* lines 196-209 without the append of lines 203-204
FoldDep_NoAdd(base, baseReqs, dep) ==
    IF base.name = dep.name THEN baseReqs
    ELSE LET index == IndexOfDep(baseReqs, dep, 1)
         IN IF index = 0 THEN baseReqs
            ELSE IF baseReqs[index].marker # dep.marker
                 THEN [baseReqs EXCEPT ![index].marker = dep.marker]
                 ELSE baseReqs

\* one dependency of a feature package against its base package (lines 196-209)
FoldDep(base, baseReqs, dep) ==
    IF base.name = dep.name THEN baseReqs
    ELSE LET index == IndexOfDep(baseReqs, dep, 1)
         IN IF index = 0 THEN Append(baseReqs, dep)
            ELSE IF baseReqs[index].marker # dep.marker
                 THEN [baseReqs EXCEPT ![index].marker = dep.marker]
                 ELSE baseReqs

RECURSIVE FoldDeps(_, _, _, _)
\* for dep in package.requires, from position i on
FoldDeps(base, baseReqs, featReqs, i) ==
    IF i > Len(featReqs) THEN baseReqs
    ELSE FoldDeps(base, FoldDep(base, baseReqs, featReqs[i]), featReqs, i + 1)

\* whether _package is the base package of the feature package
IsBaseOf(base, package) ==
    /\ base.features = {}
    /\ base.name = package.name
    /\ base.version = package.version

RECURSIVE FoldFeature(_, _, _, _)
\* for _package in packages, from position j on: the requires of all packages
\* after the feature package `package` has been merged into its base packages
FoldFeature(package, pkgs, reqs, j) ==
    IF j > Len(pkgs) THEN reqs
    ELSE IF IsBaseOf(pkgs[j], package)
         THEN FoldFeature(package, pkgs,
                  [reqs EXCEPT ![pkgs[j]] =
                      FoldDeps(pkgs[j], reqs[pkgs[j]], reqs[package], 1)],
                  j + 1)
         ELSE FoldFeature(package, pkgs, reqs, j + 1)

(***************************************************************************)
(* Solver._aggregate_solved_packages, one action per step.                 *)
(***************************************************************************)
\* the merge state while no merge runs
NoMerge ==
    [ phase |-> "off", overrides |-> << >>, i |-> 1, j |-> 0, om |-> AnyMarker,
      provider |-> EmptyMap, tried |-> << >>, calls |-> 0, raised |-> "",
      python |-> {}, equivalent |-> {},
      hist |-> << >>,
      new |-> [order |-> << >>, info |-> EmptyMap, reqs |-> EmptyMap],
      acc |-> EmptyMap, accOrder |-> << >> ]

\* the source node PackageNode(self._package, packages)
SourceNode == PackageNode(RootPackage, FALSE, << >>, << >>)

\* depth_first_search(PackageNode(self._package, packages)) (lines 179-181)
DepthFirstSearch ==
    /\ pc = "dfs"
    /\ LET d == DfsVisit(SourceNode, packages, requires)
       IN /\ dfs' = d
          /\ nodeDepth' = VisitAll(d.sorted_nodes, d.back_edges)
          /\ nodeOptional' = [id \in Range(d.sorted_nodes) |-> id.optional]
    /\ pc' = "aggregate"
    /\ UNCHANGED << packages, requires, pkgOptional, resultOrder, results, cm,
                    foldIdx, solvedOrder, run, firstRun, mg, built >>

\* depth_first_search one step of dfs_visit at a time: the call
\* dfs_visit(source, ...) of line 244
DfsBegin ==
    /\ pc = "dfs"
    /\ dfs' = DfsEnter(DfsInit, SourceNode, packages, requires)
    /\ pc' = "walk"
    /\ UNCHANGED << packages, requires, pkgOptional, nodeDepth, nodeOptional,
                    resultOrder, results, cm, foldIdx, solvedOrder, run, firstRun, mg,
                    built >>

\* one iteration of the loop of dfs_visit in the innermost call, or its exit
\* (lines 274-281)
DfsAdvance ==
    /\ pc = "walk"
    /\ dfs.stack # << >>
    /\ dfs' = DfsStep(dfs, packages, requires)
    /\ UNCHANGED << pc, packages, requires, pkgOptional, nodeDepth, nodeOptional,
                    resultOrder, results, cm, foldIdx, solvedOrder, run, firstRun, mg,
                    built >>

\* dfs_visit(source) has returned: the depths and the grouping by package
\* (lines 247-259)
DfsEnd ==
    /\ pc = "walk"
    /\ dfs.stack = << >>
    /\ nodeDepth' = VisitAll(dfs.sorted_nodes, dfs.back_edges)
    /\ nodeOptional' = [id \in Range(dfs.sorted_nodes) |-> id.optional]
    /\ pc' = "aggregate"
    /\ UNCHANGED << packages, requires, pkgOptional, dfs, resultOrder, results, cm,
                    foldIdx, solvedOrder, run, firstRun, mg, built >>

\* results = dict(aggregate_package_nodes(nodes) for nodes in combined_nodes)
\* (line 182), with what aggregate_package_nodes writes back to the nodes and
\* to package.optional
AggregateNodes ==
    /\ pc = "aggregate"
    /\ LET a == AggregateAll(CombinedNodes(dfs.sorted_nodes), nodeDepth, nodeOptional)
       IN /\ resultOrder' = a.order
          /\ results' = a.info
          /\ nodeDepth' = [id \in DOMAIN nodeDepth |-> a.info[id.package].depth]
          /\ nodeOptional' = [id \in DOMAIN nodeOptional |-> a.optional[id.package]]
          /\ pkgOptional' = [p \in (DOMAIN pkgOptional) \cup (DOMAIN a.optional) |->
                               IF p \in DOMAIN a.optional THEN a.optional[p]
                               ELSE pkgOptional[p]]
          /\ cm' = CmInit(a.order, a.info)
    /\ pc' = "markers"
    /\ UNCHANGED << packages, requires, dfs, foldIdx, solvedOrder, run, firstRun, mg,
                    built >>

\* line 415 with the groups of empty marker taken out of the groups
AssignMarkers_DropEmpty(transitive_info, transitive_marker) ==
    [transitive_info EXCEPT
        !.markers = transitive_marker,
        !.groups = { g \in @ : transitive_marker[g] # EmptyMarker }]

\* transitive_info.markers = transitive_marker (line 415)
AssignMarkers(transitive_info, transitive_marker) ==
    [transitive_info EXCEPT !.markers = transitive_marker]

\* the test of `while has_incomplete_markers` (lines 393-394)
CmLoopTest ==
    /\ pc = "markers"
    /\ cm.k = 0
    /\ IF cm.has_incomplete
       THEN /\ cm' = [cm EXCEPT !.has_incomplete = FALSE,
                                !.passes = IF @ < MaxPasses THEN @ + 1 ELSE @,
                                !.k = IF cm.order = << >> THEN 0 ELSE 1]
            /\ UNCHANGED << pc, foldIdx >>
       ELSE /\ pc' = "fold"
            /\ foldIdx' = 1
            /\ UNCHANGED cm
    /\ UNCHANGED << packages, requires, pkgOptional, dfs, nodeDepth, nodeOptional,
                    resultOrder, results, solvedOrder, run, firstRun, mg, built >>

\* the loop body for one package (lines 396-415)
CmPackage ==
    /\ pc = "markers"
    /\ cm.k > 0
    /\ LET package == cm.order[cm.k]
           c == CalcPackage(package, results, dfs.markers)
       IN IF c.keyError
          THEN /\ pc' = "MarkersKeyError"
               /\ UNCHANGED << results, cm >>
          ELSE /\ results' = [results EXCEPT ![package] = AssignMarkers(@, c.markers)]
               /\ cm' = [cm EXCEPT !.has_incomplete = @ \/ c.incomplete,
                                   !.k = IF cm.k = Len(cm.order) THEN 0 ELSE cm.k + 1]
               /\ UNCHANGED pc
    /\ UNCHANGED << packages, requires, pkgOptional, dfs, nodeDepth, nodeOptional,
                    resultOrder, foldIdx, solvedOrder, run, firstRun, mg, built >>

\* line 188 with every package taken for a base package
HasFeatures_Never(package) == FALSE

\* `if package.features:` (line 188)
HasFeatures(package) == package.features # {}

\* one round of `for package in packages` (lines 187-211)
FoldPackage ==
    /\ pc = "fold"
    /\ foldIdx <= Len(packages)
    /\ LET package == packages[foldIdx]
       IN IF HasFeatures(package)
          THEN /\ requires' = FoldFeature(package, packages, requires, 1)
               /\ foldIdx' = foldIdx + 1
               /\ UNCHANGED << pc, solvedOrder >>
          ELSE IF package \in DOMAIN results
               THEN /\ solvedOrder' = IF package \in Range(solvedOrder)
                                      THEN solvedOrder
                                      ELSE Append(solvedOrder, package)
                    /\ foldIdx' = foldIdx + 1
                    /\ UNCHANGED << pc, requires >>
               ELSE /\ pc' = "FoldKeyError"
                    /\ UNCHANGED << requires, foldIdx, solvedOrder >>
    /\ UNCHANGED << packages, pkgOptional, dfs, nodeDepth, nodeOptional,
                    resultOrder, results, cm, run, firstRun, mg, built >>

\* return solved_packages (line 213)
Return ==
    /\ pc = "fold"
    /\ foldIdx > Len(packages)
    /\ pc' = "done"
    /\ UNCHANGED << packages, requires, pkgOptional, dfs, nodeDepth, nodeOptional,
                    resultOrder, results, cm, foldIdx, solvedOrder, run, firstRun, mg,
                    built >>

\* the mapping _aggregate_solved_packages returns
Solved == [p \in Range(solvedOrder) |-> results[p]]

\* _aggregate_solved_packages is called once more with the same list of the
\* same package objects: the locals are fresh, the packages keep the requires
\* and the optional flag the first call left them
Rerun ==
    /\ pc = "done"
    /\ run = 1
    /\ firstRun' = Solved
    /\ run' = 2
    /\ pc' = "dfs"
    /\ dfs' = DfsInit
    /\ nodeDepth' = EmptyMap
    /\ nodeOptional' = EmptyMap
    /\ resultOrder' = << >>
    /\ results' = EmptyMap
    /\ cm' = CmInit(<< >>, EmptyMap)
    /\ foldIdx' = 0
    /\ solvedOrder' = << >>
    /\ UNCHANGED << packages, requires, pkgOptional, mg, built >>

Next ==
    \/ DepthFirstSearch
    \/ AggregateNodes
    \/ CmLoopTest
    \/ CmPackage
    \/ FoldPackage
    \/ Return

(***************************************************************************)
(* The solver outputs the model starts from.                               *)
(***************************************************************************)
\* the three solved packages: three packages of different names, or a
\* feature package, its base package and a third package
PlainScheme == << Pkg("a", 1, {}), Pkg("b", 1, {}), Pkg("c", 1, {}) >>

FeatureScheme == << Pkg("foo", 1, {"x"}), Pkg("foo", 1, {}), Pkg("c", 1, {}) >>

Schemes == { PlainScheme, FeatureScheme }

\* group set and optional flag of a dependency of the project
Contexts ==
    { [groups |-> {"main"}, optional |-> FALSE],
      [groups |-> {"main"}, optional |-> TRUE],
      [groups |-> {"dev"}, optional |-> FALSE] }

\* marker of the i-th dependency of the project
RootMarker(i) ==
    CASE i = 1 -> PlatformMarker("win32")
      [] i = 2 -> PlatformMarker("linux")
      [] i = 3 -> PyMarker("3.11")
      [] OTHER -> AnyMarker

\* marker of the dependencies the i-th solved package declares
InnerMarker(i) ==
    CASE i = 1 -> PyMarker("3.10")
      [] i = 2 -> AnyMarker
      [] i = 3 -> PyMarker("3.11")
      [] OTHER -> AnyMarker

\* a dependency of the project on package p
RootDep(p, ctx, i) ==
    Dep(p.name, p.features, {p.version}, RootMarker(i), ctx.groups, ctx.optional, {})

\* a dependency of solved package number i on package p: a feature package
\* requires what its extra activates (optional, under the extra's marker) and
\* its base package (not optional)
InnerDep(src, i, p) ==
    LET byExtra == src.features # {} /\ p.name # src.name
    IN Dep(p.name, p.features, {p.version},
           IF byExtra
           THEN MarkerIntersect(InnerMarker(i), ExtraMarker(src.features))
           ELSE InnerMarker(i),
           {"main"}, byExtra, {})

\* the requires of all packages for a choice of targets
MakeRequires(pkgs, rootTargets, rootCtx, inner) ==
    [p \in Range(pkgs) \cup {RootPackage} |->
        IF p = RootPackage
        THEN [i \in 1..Len(rootTargets) |-> RootDep(pkgs[rootTargets[i]], rootCtx[i], i)]
        ELSE LET k == CHOOSE k \in 1..Len(pkgs) : pkgs[k] = p
             IN [j \in 1..Len(inner[k]) |-> InnerDep(p, k, pkgs[inner[k][j]])]]

\* the numbers of S as an ascending sequence
RECURSIVE Ascending(_)
Ascending(S) ==
    IF S = {} THEN << >>
    ELSE LET m == CHOOSE x \in S : \A y \in S : x <= y
         IN << m >> \o Ascending(S \ {m})

\* the dependency lists solved package k may have: at most MaxDeps other
\* packages, in the order of the list
InnerLists(k, n) ==
    { Ascending(S) : S \in { T \in SUBSET ((1..n) \ {k}) : Cardinality(T) <= MaxDeps } }

\* nothing has been walked, aggregated or merged yet
\* no call of PackageNode(...) is looked at
NoCall == [args |-> << >>, node |-> << >>, depth |-> << >>]

InitLocals ==
    /\ pkgOptional = EmptyMap
    /\ dfs = DfsInit
    /\ nodeDepth = EmptyMap
    /\ nodeOptional = EmptyMap
    /\ resultOrder = << >>
    /\ results = EmptyMap
    /\ cm = CmInit(<< >>, EmptyMap)
    /\ foldIdx = 0
    /\ solvedOrder = << >>
    /\ run = 1
    /\ firstRun = EmptyMap
    /\ mg = NoMerge
    /\ built = NoCall

InitCommon ==
    /\ pc = "dfs"
    /\ InitLocals

\* the solver outputs over the package lists of `schemes`: the list and the
\* requires of its packages and of the project
SolverOutputs(schemes) ==
    UNION { { [packages |-> pkgs,
               requires |-> MakeRequires(pkgs, rootTargets, rootCtx, << i1, i2, i3 >>)] :
                pkgs \in schemes,
                rootTargets \in [1..n -> 1..3],
                rootCtx \in [1..n -> Contexts],
                i1 \in InnerLists(1, 3), i2 \in InnerLists(2, 3),
                i3 \in InnerLists(3, 3) } :
            n \in 1..MaxRootDeps }

InitOf(schemes) ==
    /\ \E o \in SolverOutputs(schemes) :
          /\ packages = o.packages
          /\ requires = o.requires
    /\ InitCommon

Init == InitOf(Schemes)

Spec == Init /\ [][Next]_vars

InitPlain == InitOf({PlainScheme})

\* the scheduling of the code: once calculate_markers has been called, its
\* loop runs on until it ends or raises
FairSpec == InitPlain /\ [][Next]_vars /\ WF_vars(CmLoopTest) /\ WF_vars(CmPackage)

InitFold == InitOf({FeatureScheme})

\* the aggregation of the solver outputs that hold a feature package
SpecFold == InitFold /\ [][Next]_vars

\* _aggregate_solved_packages called twice on one solver output
SpecTwice == InitFold /\ [][Next \/ Rerun]_vars

\* Solver outputs with three feature variants of one package, the project
\* requiring up to MaxRootDeps + 1 of them and each variant requiring only
\* variants later in the list (an acyclic graph)
VariantScheme == << Pkg("foo", 1, {"x"}), Pkg("foo", 1, {"y"}), Pkg("foo", 1, {}) >>

ForwardLists(k, n) ==
    { Ascending(S) : S \in { T \in SUBSET ((k + 1)..n) : Cardinality(T) <= MaxDeps } }

InitVariants ==
    /\ \E n \in 1..(MaxRootDeps + 1) :
       \E rootTargets \in [1..n -> 1..3] :
       \E rootCtx \in [1..n -> Contexts] :
       \E i1 \in ForwardLists(1, 3), i2 \in ForwardLists(2, 3) :
          /\ packages = VariantScheme
          /\ requires = MakeRequires(VariantScheme, rootTargets, rootCtx,
                                     << i1, i2, << >> >>)
    /\ InitCommon

SpecVariants == InitVariants /\ [][Next]_vars

(***************************************************************************)
(* The dependency graph the walk saw, for the statements below.            *)
(***************************************************************************)
\* the packages the back-edge marker table records as parents of c
Parents(c) == DOMAIN Get(dfs.markers, c, EmptyMap)

\* the packages reachable from the packages of S along recorded edges
RECURSIVE Descendants(_, _)
Descendants(S, n) ==
    IF n = 0 THEN S
    ELSE Descendants(S \cup { c \in DOMAIN dfs.markers : Parents(c) \cap S # {} }, n - 1)

Children(p) == { c \in DOMAIN dfs.markers : p \in Parents(c) }

\* no package reaches itself
Acyclic ==
    \A p \in DOMAIN results :
        p \notin Descendants(Children(p), Cardinality(DOMAIN results))

\* calculate_markers has returned
CalcDone == pc \in {"fold", "FoldKeyError", "done"}

\* what the recurrence asks of the marker of c for group g, on the markers
\* the parents hold now
Recurrence(c, g) ==
    UNION { IF IsRoot(p) THEN dfs.markers[c][p]
            ELSE IF g \in DOMAIN results[p].markers
                 THEN results[p].markers[g] \cap dfs.markers[c][p]
                 ELSE {}
            : p \in Parents(c) }

FixedPoint ==
    \A c \in DOMAIN results :
        ~IsRoot(c) =>
            \A g \in results[c].groups :
                /\ g \in DOMAIN results[c].markers
                /\ results[c].markers[g] = Recurrence(c, g)

\* C1: on an acyclic dependency graph, after depth_first_search,
\* aggregate_package_nodes and calculate_markers every non-root package has,
\* for each of its groups, the union over its parents of the parent's marker
\* for the group intersected with the edge marker (a root parent gives the
\* edge marker alone).
C1_AcyclicMarkersAreUnionOverParents ==
    (CalcDone /\ Acyclic) => FixedPoint

\* C2: on every dependency graph, cyclic ones included, the markers
\* calculate_markers leaves are a fixed point of the recurrence.
C2_MarkersAreFixedPoint ==
    CalcDone => FixedPoint

(***************************************************************************)
(* merge_packages_from_override and the loop over the overrides of         *)
(* Solver._solve_in_compatibility_mode (lines 131-140).                    *)
(***************************************************************************)
\* override_marker (lines 423-426): the intersection of
\* dep.marker.without_extras() over the dependencies of the override, which
\* maps a package to a map from names to dependencies
RECURSIVE IntersectDeps(_, _, _)
IntersectDeps(m, deps, names) ==
    IF names = {} THEN m
    ELSE LET n == CHOOSE n \in names : TRUE
         IN IntersectDeps(MarkerIntersect(m, WithoutExtras(deps[n].marker)),
                          deps, names \ {n})

RECURSIVE IntersectOverride(_, _, _)
IntersectOverride(m, override, pkgs) ==
    IF pkgs = {} THEN m
    ELSE LET p == CHOOSE p \in pkgs : TRUE
         IN IntersectOverride(IntersectDeps(m, override[p], DOMAIN override[p]),
                              override, pkgs \ {p})

OverrideMarker(override) == IntersectOverride(AnyMarker, override, DOMAIN override)

\* lines 430-431 without the update of the groups
MergeDepthGroups_KeepGroups(package_info, new_package_info) ==
    [package_info EXCEPT
        !.depth = IF @ >= new_package_info.depth THEN @ ELSE new_package_info.depth]

\* lines 430-431 with the depth of the new result taken as it is
MergeDepthGroups_NewDepth(package_info, new_package_info) ==
    [package_info EXCEPT
        !.depth = new_package_info.depth,
        !.groups = @ \cup new_package_info.groups]

\* lines 430-431: depth and groups of a package the accumulator holds
MergeDepthGroups(package_info, new_package_info) ==
    [package_info EXCEPT
        !.depth = IF @ >= new_package_info.depth THEN @ ELSE new_package_info.depth,
        !.groups = @ \cup new_package_info.groups]

\* lines 432-435 with the new marker replacing the one held
MergeMarkersOf_Overwrite(package_info, new_package_info, override_marker) ==
    [package_info EXCEPT
        !.markers = [g \in (DOMAIN @) \cup (DOMAIN new_package_info.markers) |->
                        IF g \in DOMAIN new_package_info.markers
                        THEN MarkerIntersect(override_marker,
                                             new_package_info.markers[g])
                        ELSE @[g]]]

\* lines 432-435: the markers of a package the accumulator holds
MergeMarkersOf(package_info, new_package_info, override_marker) ==
    [package_info EXCEPT
        !.markers = [g \in (DOMAIN @) \cup (DOMAIN new_package_info.markers) |->
                        IF g \in DOMAIN new_package_info.markers
                        THEN MarkerUnion(Get(@, g, EmptyMarker),
                                 MarkerIntersect(override_marker,
                                                 new_package_info.markers[g]))
                        ELSE @[g]]]

\* lines 438-440: the dependencies of new_package the package lacks are added
RECURSIVE AddMissingDeps(_, _, _)
AddMissingDeps(reqs, newReqs, i) ==
    IF i > Len(newReqs) THEN reqs
    ELSE AddMissingDeps(
             IF \E k \in 1..Len(reqs) : DepEq(reqs[k], newReqs[i])
             THEN reqs ELSE Append(reqs, newReqs[i]),
             newReqs, i + 1)

\* lines 443-444: the markers of a package new to the accumulator
NewPackageMarkers(new_package_info, override_marker) ==
    [new_package_info EXCEPT
        !.markers = [g \in DOMAIN @ |-> MarkerIntersect(override_marker, @[g])]]

\* line 138 with the first override of the sequence set every time
SetOverrides_First(m) == [m EXCEPT !.provider = m.overrides[1]]

\* self._provider.set_overrides(override) (line 138)
SetOverrides(m) == [m EXCEPT !.provider = m.overrides[m.i]]

\* the head of Solver._solve up to the call of resolve_version (lines
\* 162-166): the overrides of the provider, if any, are noted in
\* self._overrides, and resolve_version is called
SolveEntry(m) ==
    [m EXCEPT !.tried = IF m.provider # EmptyMap THEN Append(@, m.provider) ELSE @,
              !.calls = @ + 1]

\* lines 171-172 with the failure swallowed and the next override taken
OnSolveFailure_NextOverride(m) ==
    [pc |-> "merge", mg |-> [m EXCEPT !.phase = "solve", !.i = @ + 1]]

\* except SolveFailure as e: raise SolverProblemError(e) (lines 171-172);
\* nothing up the stack catches it
OnSolveFailure(m) ==
    [pc |-> "SolverProblemError", mg |-> [m EXCEPT !.phase = "failed"]]

\* self._provider.set_overrides(override); new_packages = self._solve();
\* then the head of merge_packages_from_override (lines 138-140, 423-426).
\* The rerun's result is an input: a mapping as _solve returns it.
MergeSolve(rerun) ==
    /\ pc = "merge"
    /\ mg.phase = "solve"
    /\ mg.i <= Len(mg.overrides)
    /\ mg' = [SolveEntry(SetOverrides(mg)) EXCEPT !.hist = Append(@, rerun),
                        !.new = rerun,
                        !.om = OverrideMarker(mg.overrides[mg.i]),
                        !.j = 1,
                        !.i = IF rerun.order = << >> THEN @ + 1 ELSE @,
                        !.phase = IF rerun.order = << >> THEN "solve" ELSE "package"]
    /\ UNCHANGED << pc, packages, requires, pkgOptional, dfs, nodeDepth, nodeOptional,
                    resultOrder, results, cm, foldIdx, solvedOrder, run, firstRun,
                    built >>

\* where the loop over new_packages goes after the package at mg.j
MergeAdvance(m) ==
    IF m.j = Len(m.new.order)
    THEN [m EXCEPT !.phase = "solve", !.i = @ + 1]
    ELSE [m EXCEPT !.phase = "package", !.j = @ + 1]

\* lines 428-431: a package the accumulator holds
MergeExisting ==
    /\ pc = "merge"
    /\ mg.phase = "package"
    /\ LET new_package == mg.new.order[mg.j]
       IN /\ new_package \in DOMAIN mg.acc
          /\ mg' = [mg EXCEPT !.acc[new_package] =
                                  MergeDepthGroups(@, mg.new.info[new_package]),
                              !.phase = "markers"]
    /\ UNCHANGED << pc, packages, requires, pkgOptional, dfs, nodeDepth, nodeOptional,
                    resultOrder, results, cm, foldIdx, solvedOrder, run, firstRun,
                    built >>

\* lines 432-435
MergeMarkers ==
    /\ pc = "merge"
    /\ mg.phase = "markers"
    /\ LET new_package == mg.new.order[mg.j]
       IN mg' = [mg EXCEPT !.acc[new_package] =
                               MergeMarkersOf(@, mg.new.info[new_package], mg.om),
                           !.phase = "requires"]
    /\ UNCHANGED << pc, packages, requires, pkgOptional, dfs, nodeDepth, nodeOptional,
                    resultOrder, results, cm, foldIdx, solvedOrder, run, firstRun,
                    built >>

\* lines 436-440
MergeRequires ==
    /\ pc = "merge"
    /\ mg.phase = "requires"
    /\ LET new_package == mg.new.order[mg.j]
       IN requires' = [requires EXCEPT ![new_package] =
                          AddMissingDeps(@, mg.new.reqs[new_package], 1)]
    /\ mg' = MergeAdvance(mg)
    /\ UNCHANGED << pc, packages, pkgOptional, dfs, nodeDepth, nodeOptional,
                    resultOrder, results, cm, foldIdx, solvedOrder, run, firstRun,
                    built >>

\* lines 442-444: a package new to the accumulator
MergeNewMarkers ==
    /\ pc = "merge"
    /\ mg.phase = "package"
    /\ LET new_package == mg.new.order[mg.j]
       IN /\ new_package \notin DOMAIN mg.acc
          /\ mg' = [mg EXCEPT !.new.info[new_package] = NewPackageMarkers(@, mg.om),
                              !.phase = "insert"]
    /\ UNCHANGED << pc, packages, requires, pkgOptional, dfs, nodeDepth, nodeOptional,
                    resultOrder, results, cm, foldIdx, solvedOrder, run, firstRun,
                    built >>

\* line 445: packages[new_package] = new_package_info
MergeInsert ==
    /\ pc = "merge"
    /\ mg.phase = "insert"
    /\ LET new_package == mg.new.order[mg.j]
       IN /\ mg' = MergeAdvance(
                     [mg EXCEPT !.acc = Put(@, new_package, mg.new.info[new_package]),
                                !.accOrder = Append(@, new_package)])
          /\ requires' = Put(requires, new_package, mg.new.reqs[new_package])
    /\ UNCHANGED << pc, packages, pkgOptional, dfs, nodeDepth, nodeOptional,
                    resultOrder, results, cm, foldIdx, solvedOrder, run, firstRun,
                    built >>

\* the loop over the overrides has ended (line 132)
MergeDone ==
    /\ pc = "merge"
    /\ mg.phase = "solve"
    /\ mg.i > Len(mg.overrides)
    /\ mg' = [mg EXCEPT !.phase = "merged"]
    /\ UNCHANGED << pc, packages, requires, pkgOptional, dfs, nodeDepth, nodeOptional,
                    resultOrder, results, cm, foldIdx, solvedOrder, run, firstRun,
                    built >>

\* get_python_constraint_from_marker(marker): the python versions marker allows
PythonConstraintFromMarker(marker) == { EnvPy(e) : e \in marker }

\* marker.only("python_version"): what marker says of the python version
OnlyPython(marker) == { e \in Env : EnvPy(e) \in PythonConstraintFromMarker(marker) }

\* lines 150-154 without the test marker == marker.only("python_version")
EquivalentToPython_AnyCover(marker, python_constraint) ==
    python_constraint \subseteq PythonConstraintFromMarker(marker)

\* the test of lines 150-154 past the memo
EquivalentToPython(marker, python_constraint) ==
    /\ marker = OnlyPython(marker)
    /\ python_constraint \subseteq PythonConstraintFromMarker(marker)

\* the python constraints of the project (self._package.python_constraint)
ProjectPythons == { {"3.10"}, {"3.11"}, {"3.10", "3.11"} }

\* lines 142-159: the markers equivalent to the python constraint of the
\* project are replaced by AnyMarker and the mapping is returned
ReplaceEquivalentMarkers ==
    /\ pc = "merge"
    /\ mg.phase = "merged"
    /\ \E python_constraint \in ProjectPythons :
          LET all == UNION { { mg.acc[p].markers[g] : g \in DOMAIN mg.acc[p].markers } :
                             p \in DOMAIN mg.acc }
              eq  == { m \in all : EquivalentToPython(m, python_constraint) }
          IN mg' = [mg EXCEPT
                      !.python = python_constraint,
                      !.equivalent = eq,
                      !.acc = [p \in DOMAIN @ |->
                                 [@[p] EXCEPT !.markers =
                                    [g \in DOMAIN @ |->
                                       IF @[g] \in eq THEN AnyMarker ELSE @[g]]]],
                      !.phase = "returned"]
    /\ UNCHANGED << pc, packages, requires, pkgOptional, dfs, nodeDepth, nodeOptional,
                    resultOrder, results, cm, foldIdx, solvedOrder, run, firstRun,
                    built >>

\* set_overrides(override) and _solve() (lines 138-139) when resolve_version
\* raises SolveFailure in the rerun (lines 165-172)
MergeSolveFails ==
    /\ pc = "merge"
    /\ mg.phase = "solve"
    /\ mg.i <= Len(mg.overrides)
    /\ LET out == OnSolveFailure(
                     [SolveEntry(SetOverrides(mg)) EXCEPT !.raised = "SolveFailure"])
       IN pc' = out.pc /\ mg' = out.mg
    /\ UNCHANGED << packages, requires, pkgOptional, dfs, nodeDepth, nodeOptional,
                    resultOrder, results, cm, foldIdx, solvedOrder, run, firstRun,
                    built >>

(***************************************************************************)
(* The overrides and rerun results the merge starts from.                  *)
(***************************************************************************)
PkgP == Pkg("p", 1, {})
PkgQ == Pkg("q", 1, {})

\* a replacement dependency of an override
OverrideDep(n, m) == Dep(n, {}, {1}, m, {"main"}, FALSE, {})

\* the i-th override of the OverrideNeeded
OverrideAt(i) ==
    CASE i = 1 -> (PkgP :> ("d" :> OverrideDep("d", PlatformMarker("win32"))))
      [] i = 2 -> (PkgP :> ("d" :> OverrideDep("d", PlatformMarker("linux"))
                            @@ "e" :> OverrideDep("e",
                                 MarkerIntersect(PyMarker("3.10"), ExtraMarker({"x"})))))
      [] i = 3 -> (PkgP :> ("d" :> OverrideDep("d", PyMarker("3.11")))
                   @@ PkgQ :> ("e" :> OverrideDep("e", PlatformMarker("win32"))))
      [] OTHER -> (PkgQ :> ("e" :> OverrideDep("e", AnyMarker)))

\* the infos a rerun may give package p: in main, or in main and dev (then
\* one level deeper), required everywhere or under python 3.10
InfosOfP ==
    { [depth |-> IF "dev" \in gs THEN 1 ELSE 0, groups |-> gs,
       markers |-> [g \in gs |-> IF g = "main" THEN m ELSE PyMarker("3.11")]]
      : gs \in {{"main"}, {"main", "dev"}}, m \in {AnyMarker, PyMarker("3.10")} }

\* the info the i-th rerun gives package q, if it selects q
InfoOfQ(i) ==
    [depth |-> i % 2, groups |-> {"main"}, markers |-> [g \in {"main"} |-> AnyMarker]]

\* the requires of the package objects of the i-th rerun
RerunRequires(i) ==
    IF i % 2 = 1
    THEN << OverrideDep("d", PlatformMarker("win32")) >>
    ELSE << OverrideDep("d", PlatformMarker("linux")), OverrideDep("e", AnyMarker) >>

\* what the i-th rerun of _solve may return: p, q, both (q first in every
\* second rerun) or nothing
Reruns(i) ==
    LET both == IF i % 2 = 1 THEN << PkgP, PkgQ >> ELSE << PkgQ, PkgP >>
    IN { [order |-> << PkgP >>, info |-> (PkgP :> x),
          reqs |-> (PkgP :> RerunRequires(i))] : x \in InfosOfP }
       \cup { [order |-> both, info |-> (PkgP :> x @@ PkgQ :> InfoOfQ(i)),
               reqs |-> (PkgP :> RerunRequires(i) @@ PkgQ :> RerunRequires(i))]
              : x \in InfosOfP }
       \cup { [order |-> << PkgQ >>, info |-> (PkgQ :> InfoOfQ(i)),
               reqs |-> (PkgQ :> RerunRequires(i))],
              [order |-> << >>, info |-> EmptyMap, reqs |-> EmptyMap] }

MergeNext ==
    \/ \E rerun \in Reruns(mg.i) : MergeSolve(rerun)
    \/ MergeExisting
    \/ MergeMarkers
    \/ MergeRequires
    \/ MergeNewMarkers
    \/ MergeInsert
    \/ MergeDone

InitMerge ==
    /\ pc = "merge"
    /\ packages = << >>
    /\ requires = EmptyMap
    /\ pkgOptional = EmptyMap
    /\ dfs = DfsInit
    /\ nodeDepth = EmptyMap
    /\ nodeOptional = EmptyMap
    /\ resultOrder = << >>
    /\ results = EmptyMap
    /\ cm = CmInit(<< >>, EmptyMap)
    /\ foldIdx = 0
    /\ solvedOrder = << >>
    /\ run = 1
    /\ firstRun = EmptyMap
    /\ built = NoCall
    /\ \E n \in 1..MaxOverrides :
          mg = [NoMerge EXCEPT !.phase = "solve", !.calls = 1,
                               !.raised = "OverrideNeeded",
                               !.overrides = [i \in 1..n |-> OverrideAt(i)]]

SpecMerge == InitMerge /\ [][MergeNext]_vars

(***************************************************************************)
(* Solver._solve: the first call of resolve_version and what follows.      *)
(***************************************************************************)
\* Solver._solve has been called and resolve_version has not (line 162)
InitSolve ==
    /\ pc = "solve"
    /\ packages = << >>
    /\ requires = EmptyMap
    /\ InitLocals

\* the solver outputs of the first run: the project requires the first of
\* three packages, which requires some of the others
FirstRunOutputs ==
    { [packages |-> PlainScheme,
       requires |-> MakeRequires(PlainScheme, << 1 >>, << ctx >>,
                                 << i1, << >>, << >> >>)] :
        ctx \in Contexts, i1 \in InnerLists(1, 3) }

\* resolve_version returns and its packages go to
\* _aggregate_solved_packages (lines 166-168, 174)
ResolveReturns ==
    /\ pc = "solve"
    /\ \E o \in FirstRunOutputs :
          /\ packages' = o.packages
          /\ requires' = o.requires
    /\ mg' = SolveEntry(mg)
    /\ pc' = "dfs"
    /\ UNCHANGED << pkgOptional, dfs, nodeDepth, nodeOptional, resultOrder, results,
                    cm, foldIdx, solvedOrder, run, firstRun, built >>

\* resolve_version raises OverrideNeeded and _solve_in_compatibility_mode
\* starts with an empty mapping (lines 169-170, 131)
ResolveOverrideNeeded ==
    /\ pc = "solve"
    /\ \E n \in 1..MaxOverrides :
          mg' = [SolveEntry(mg) EXCEPT !.raised = "OverrideNeeded",
                                       !.phase = "solve",
                                       !.overrides = [i \in 1..n |-> OverrideAt(i)]]
    /\ pc' = "merge"
    /\ UNCHANGED << packages, requires, pkgOptional, dfs, nodeDepth, nodeOptional,
                    resultOrder, results, cm, foldIdx, solvedOrder, run, firstRun,
                    built >>

\* resolve_version raises SolveFailure in the first run (lines 165-172)
ResolveFails ==
    /\ pc = "solve"
    /\ LET out == OnSolveFailure([SolveEntry(mg) EXCEPT !.raised = "SolveFailure"])
       IN pc' = out.pc /\ mg' = out.mg
    /\ UNCHANGED << packages, requires, pkgOptional, dfs, nodeDepth, nodeOptional,
                    resultOrder, results, cm, foldIdx, solvedOrder, run, firstRun,
                    built >>

SolveNext ==
    \/ ResolveReturns
    \/ ResolveOverrideNeeded
    \/ ResolveFails
    \/ MergeSolveFails
    \/ MergeNext
    \/ ReplaceEquivalentMarkers
    \/ Next

\* one call of Solver._solve
SpecSolve == InitSolve /\ [][SolveNext]_vars

\* the aggregation of one solver output, or the merge of override reruns
SpecAggMerge == (InitFold \/ InitMerge) /\ [][Next \/ MergeNext]_vars

(***************************************************************************)
(* Statements about the marker keys and the override merge.                *)
(***************************************************************************)
KeysWithinGroups(info) == DOMAIN info.markers \subseteq info.groups

\* C4: the marker keys of every package info are among its groups in every
\* state of calculate_markers and of merge_packages_from_override, and equal
\* to its groups for every non-root package once calculate_markers has
\* returned.
C4_MarkerKeysWithinGroups ==
    /\ \A p \in DOMAIN results : KeysWithinGroups(results[p])
    /\ mg.phase # "off" =>
          /\ \A p \in DOMAIN mg.acc : KeysWithinGroups(mg.acc[p])
          /\ \A p \in DOMAIN mg.new.info : KeysWithinGroups(mg.new.info[p])
    /\ CalcDone =>
          \A p \in DOMAIN results :
              ~IsRoot(p) => DOMAIN results[p].markers = results[p].groups

\* a pass of calculate_markers is under way: one package has its markers,
\* another one with groups has none yet
C4_Witness ==
    /\ pc = "markers"
    /\ \E p, q \in DOMAIN results :
          /\ results[p].groups # {} /\ DOMAIN results[p].markers = results[p].groups
          /\ results[q].groups # {} /\ DOMAIN results[q].markers = {}

\* the override marker as the claim words it
OverrideMarkerOf(o) ==
    { e \in Env : \A p \in DOMAIN o : \A n \in DOMAIN o[p] :
                      e \in WithoutExtras(o[p][n].marker) }

\* the reruns merged so far that hold package p with group g
RerunsWith(p, g) ==
    { k \in 1..Len(mg.hist) :
        p \in DOMAIN mg.hist[k].info /\ g \in DOMAIN mg.hist[k].info[p].markers }

\* what rerun k adds to the marker of p for g
Contribution(k, p, g) ==
    OverrideMarkerOf(mg.overrides[k]) \cap mg.hist[k].info[p].markers[g]

\* C5: after the results r1..rn of the reruns have been merged left to right
\* into an empty accumulator, every (package, group) of the accumulator has
\* the union over the reruns that hold it of override_marker(oi) intersected
\* with ri.markers[group].
C5_MergeIsUnionOfOverrideIntersections ==
    mg.phase \in {"solve", "merged"} =>
        /\ \A p \in DOMAIN mg.acc : \A g \in DOMAIN mg.acc[p].markers :
              mg.acc[p].markers[g] =
                  UNION { Contribution(k, p, g) : k \in RerunsWith(p, g) }
        /\ \A k \in 1..Len(mg.hist) : \A p \in DOMAIN mg.hist[k].info :
              /\ p \in DOMAIN mg.acc
              /\ DOMAIN mg.hist[k].info[p].markers \subseteq DOMAIN mg.acc[p].markers

\* all overrides merged, two reruns held p in main and each added
\* environments the other did not
C5_Witness ==
    /\ mg.phase = "merged"
    /\ \E k1, k2 \in RerunsWith(PkgP, "main") :
          /\ Contribution(k1, PkgP, "main") \ Contribution(k2, PkgP, "main") # {}
          /\ Contribution(k2, PkgP, "main") \ Contribution(k1, PkgP, "main") # {}

(***************************************************************************)
(* Statements about the loop of calculate_markers.                         *)
(***************************************************************************)
\* C3: calculate_markers terminates on every input depth_first_search and
\* aggregate_package_nodes hand it, cyclic graphs included: once the loop
\* `while has_incomplete_markers` has been entered it is left, no parent
\* being found incomplete in its last pass.
C3_CalculateMarkersTerminates ==
    (pc = "markers") ~> (pc = "fold" /\ ~cm.has_incomplete)

\* calculate_markers has returned after a second pass over a graph with a cycle
C3_Witness ==
    /\ pc = "fold"
    /\ cm.passes = 2
    /\ ~Acyclic

(***************************************************************************)
(* Statements about the merge of feature packages into base packages.      *)
(***************************************************************************)
\* every package of the list was reached by the walk from the root
AllReached ==
    \A p \in Range(packages) :
        p \in Descendants({RootPackage}, Len(packages))

\* the packages without features among the first n packages of the list
BasePackagesUpTo(n) ==
    SelectSeq(SubSeq(packages, 1, n), LAMBDA p : p.features = {})

\* C6: when every package of the solver's list is reachable from the root,
\* _aggregate_solved_packages returns a mapping whose keys are the packages
\* of the list without features, in the order of the list; a package with
\* features is never a key.
C6_SolvedAreBasePackagesInListOrder ==
    /\ \A p \in Range(solvedOrder) : p.features = {}
    /\ (pc \in {"fold", "FoldKeyError", "done"} /\ AllReached) =>
          /\ pc # "FoldKeyError"
          /\ solvedOrder = BasePackagesUpTo(foldIdx - 1)
          /\ \A p \in Range(solvedOrder) : p \in DOMAIN results

\* the call has returned for a list that holds a feature package the walk
\* reached and two base packages
C6_Witness ==
    /\ pc = "done"
    /\ AllReached
    /\ \E p \in Range(packages) : p.features # {} /\ p \in DOMAIN results
    /\ Len(solvedOrder) = 2

\* the loop of line 187 is at a feature package
FoldingFeature ==
    /\ pc = "fold"
    /\ foldIdx <= Len(packages)
    /\ packages[foldIdx].features # {}

\* the base packages of feature package f in the list
BasesOf(f) ==
    { b \in Range(packages) :
        b.features = {} /\ b.name = f.name /\ b.version = f.version }

\* dependency k of base package b and dependency i of feature package f
\* compare equal, carry different markers, and i is not skipped
Clash(b, k, f, i) ==
    /\ requires[f][i].name # b.name
    /\ requires[b][k].name = requires[f][i].name
    /\ requires[b][k].features = requires[f][i].features
    /\ requires[b][k].constraint = requires[f][i].constraint
    /\ requires[b][k].marker # requires[f][i].marker

\* how many dependencies of reqs compare equal to d
CountEqual(reqs, d) ==
    Cardinality({ j \in DOMAIN reqs :
                    /\ reqs[j].name = d.name
                    /\ reqs[j].features = d.features
                    /\ reqs[j].constraint = d.constraint })

NoSelfDependency ==
    \A p \in Range(packages) :
        p.features = {} =>
            \A k \in DOMAIN requires[p] : requires[p][k].name # p.name

\* C8: the merge of feature packages adds to no base package a dependency on
\* the base package's own name: no step of _aggregate_solved_packages takes
\* the packages from having no such dependency to having one.
C8_FoldAddsNoSelfDependency ==
    [][ NoSelfDependency => NoSelfDependency' ]_vars

\* the call has returned, a feature package that requires its base package
\* has been folded into it (the base package got an optional dependency of
\* the feature package), and no base package requires its own name
C8_Witness ==
    /\ pc = "done"
    /\ NoSelfDependency
    /\ \E f \in Range(packages) :
          /\ f.features # {}
          /\ \E i \in DOMAIN requires[f] : requires[f][i].name = f.name
          /\ \E b \in BasesOf(f) :
             \E k \in DOMAIN requires[b], i \in DOMAIN requires[f] :
                requires[f][i].optional /\ requires[b][k] = requires[f][i]

\* C9: a second call of _aggregate_solved_packages on the same list of the
\* same package objects returns for every package the depth, the groups and
\* the marker per group the first call returned (stated for the lists of
\* which the walk reaches every package).
C9_SecondRunGivesSameInfos ==
    (pc = "done" /\ run = 2 /\ AllReached) =>
        /\ DOMAIN Solved = DOMAIN firstRun
        /\ \A p \in DOMAIN firstRun : Solved[p] = firstRun[p]

(***************************************************************************)
(* Statements about the optional flag.                                     *)
(***************************************************************************)
\* the packages of the list a dependency selects
DepTargets(d) ==
    { q \in Range(packages) :
        q.name = d.name /\ q.features = d.features /\ q.version \in d.constraint }

\* the packages one step from the packages of S along the dependencies
\* (along those that are not optional only, when nonOptional is set)
Successors(S, nonOptional) ==
    { q \in Range(packages) :
        \E p \in S : \E k \in DOMAIN requires[p] :
            /\ q \in DepTargets(requires[p][k])
            /\ nonOptional => ~requires[p][k].optional }

\* the packages reached from the packages of S in at most n steps
RECURSIVE Closure(_, _, _)
Closure(S, n, nonOptional) ==
    IF n = 0 THEN S
    ELSE Closure(S \cup Successors(S, nonOptional), n - 1, nonOptional)

\* the packages a path from the root reaches without an optional dependency
ReachedWithoutOptional == Closure({RootPackage}, Len(packages), TRUE)

\* the packages the k-th dependency of the root leads to
ReachedThrough(k) ==
    Closure(DepTargets(requires[RootPackage][k]), Len(packages), FALSE)

\* aggregate_package_nodes has set package.optional and the merge of the
\* feature packages has not yet touched the requires
Aggregated == pc = "markers" /\ run = 1

\* C10 as stated: after the aggregation a non-root package is optional if
\* and only if every path from the root to it passes through at least one
\* optional dependency.
C10_OptionalIffEveryPathHasOptionalDependency ==
    Aggregated =>
        \A p \in (DOMAIN results) \ {RootPackage} :
            pkgOptional[p] <=> p \notin ReachedWithoutOptional

\* C10 as the code has it: after the aggregation a non-root package is
\* optional if and only if every dependency of the root that leads to it
\* (selects it, or a package from which it is reachable) is optional.
C10_OptionalIffEveryRootDependencyOptional ==
    Aggregated =>
        \A p \in (DOMAIN results) \ {RootPackage} :
            pkgOptional[p] <=>
                \A k \in DOMAIN requires[RootPackage] :
                    p \in ReachedThrough(k) => requires[RootPackage][k].optional

\* after the aggregation: a package no dependency of the root selects is
\* optional, and a package reached through an optional and through a
\* non-optional dependency of the root is not
C10_Witness ==
    /\ Aggregated
    /\ \E p \in (DOMAIN results) \ {RootPackage} :
          /\ pkgOptional[p]
          /\ \A k \in DOMAIN requires[RootPackage] :
                p \notin DepTargets(requires[RootPackage][k])
    /\ \E q \in (DOMAIN results) \ {RootPackage} :
          /\ ~pkgOptional[q]
          /\ \E k1, k2 \in DOMAIN requires[RootPackage] :
                /\ q \in ReachedThrough(k1) /\ requires[RootPackage][k1].optional
                /\ q \in ReachedThrough(k2) /\ ~requires[RootPackage][k2].optional

(***************************************************************************)
(* Statements about the depths.                                            *)
(***************************************************************************)
\* aggregate_package_nodes has run for every bucket
DepthsAggregated == pc \in {"markers", "fold", "FoldKeyError", "done"}

\* C11: after depth_first_search and aggregate_package_nodes, on cyclic and
\* acyclic graphs, with and without feature packages, the root has depth -1
\* and every other package a depth from 0 to the number of packages of the
\* solver's list; the nodes hold such depths already when the walk returns.
C11_DepthsWithinBounds ==
    /\ pc = "aggregate" =>
          \A id \in DOMAIN nodeDepth :
              IF IsRoot(id.package) THEN nodeDepth[id] = -1
              ELSE nodeDepth[id] >= 0 /\ nodeDepth[id] <= Len(packages)
    /\ DepthsAggregated =>
          /\ RootPackage \in DOMAIN results
          /\ \A p \in DOMAIN results :
                IF IsRoot(p) THEN results[p].depth = -1
                ELSE results[p].depth >= 0 /\ results[p].depth <= Len(packages)

\* the depths are aggregated for a graph with a cycle in which a feature
\* package and its base package share depth 0 and a package lies deeper
C11_Witness ==
    /\ DepthsAggregated
    /\ ~Acyclic
    /\ \E p, q, r \in DOMAIN results :
          /\ p.features # {} /\ q.features = {} /\ q.name = p.name
          /\ results[p].depth = 0 /\ results[q].depth = 0
          /\ results[r].depth >= 1

(***************************************************************************)
(* Statements about the groups of the markers.                             *)
(***************************************************************************)
\* the groups of the dependencies of the model
Groups == {"main", "dev"}

\* calculate_markers has returned and no feature package has been merged yet
MarkersCalculated == pc = "fold" /\ foldIdx = 1 /\ run = 1

\* the groups of the dependencies of the root that lead to package p
GroupsLeadingTo(p) ==
    UNION { requires[RootPackage][k].groups :
              k \in { j \in DOMAIN requires[RootPackage] : p \in ReachedThrough(j) } }

\* the marker a reader gets for group g: markers.get(g, EmptyMarker())
MarkerFor(info, g) == IF g \in DOMAIN info.markers THEN info.markers[g] ELSE {}

\* C12: a package that is reachable from the root only through dependencies
\* of group g is, after calculate_markers, required in no environment
\* through another group: its marker for every other group is the empty
\* marker (the code stores no marker for such a group).
C12_OtherGroupsHaveEmptyMarker ==
    MarkersCalculated =>
        \A p \in (DOMAIN results) \ {RootPackage} :
        \A g \in Groups :
            GroupsLeadingTo(p) = {g} =>
                \A h \in Groups \ {g} : MarkerFor(results[p], h) = {}

\* calculate_markers has returned: a package no dependency of the root
\* selects is reached through group dev alone and is required there in some
\* environment, and another package is reached through both groups
C12_Witness ==
    /\ MarkersCalculated
    /\ \E p \in (DOMAIN results) \ {RootPackage} :
          /\ GroupsLeadingTo(p) = {"dev"}
          /\ \A k \in DOMAIN requires[RootPackage] :
                p \notin DepTargets(requires[RootPackage][k])
          /\ MarkerFor(results[p], "dev") # {}
    /\ \E q \in (DOMAIN results) \ {RootPackage} :
          GroupsLeadingTo(q) = {"main", "dev"}

(***************************************************************************)
(* The reruns of the compatibility mode.                                   *)
(***************************************************************************)
\* every result of an earlier rerun has all its packages in the accumulator
RerunsMerged ==
    \A k \in 1..Len(mg.hist) : DOMAIN mg.hist[k].info \subseteq DOMAIN mg.acc

C14_SolveFailureIsTerminal ==
    [][ /\ mg'.raised = "SolveFailure" =>
             /\ pc' = "SolverProblemError"
             /\ mg'.phase = "failed"
             /\ mg'.calls = mg.calls + 1
             /\ mg'.hist = mg.hist /\ mg'.acc = mg.acc
             /\ Len(mg'.tried) <= mg'.i
        /\ pc = "SolverProblemError" => FALSE
        /\ pc' = "SolverProblemError" => mg'.raised = "SolveFailure" ]_vars

C14_Witness ==
    /\ pc = "SolverProblemError"
    /\ mg.raised = "SolveFailure"
    /\ Len(mg.hist) >= 1
    /\ Len(mg.tried) = Len(mg.hist) + 1
    /\ Len(mg.tried) < Len(mg.overrides)
    /\ DOMAIN mg.acc # {}

(***************************************************************************)
(* What the base package holds after the merge of a feature package.       *)
(***************************************************************************)
\* the loop of lines 187-211 is past position n of the list
Folded(n) == (pc = "fold" /\ n < foldIdx) \/ pc = "done"

\* C15: once a feature package has been folded, each of its dependencies on
\* a name other than the base package's has a dependency that compares equal
\* to it in the requires of every base package of the same name and version.
C15_BaseHoldsDependenciesOfFeature ==
    \A n \in DOMAIN packages :
        (Folded(n) /\ packages[n].features # {}) =>
            LET f == packages[n]
            IN \A b \in BasesOf(f) : \A i \in DOMAIN requires[f] :
                  requires[f][i].name # b.name =>
                     \E k \in DOMAIN requires[b] : DepEq(requires[b][k], requires[f][i])

\* the call has returned and the base package holds exactly one dependency
\* equal to one of the feature package, which is that very dependency, marked
\* optional as only the feature package's are: it was added by the merge
C15_Witness ==
    /\ pc = "done"
    /\ \E f \in Range(packages) :
          /\ f.features # {}
          /\ \E b \in BasesOf(f) : \E i \in DOMAIN requires[f] :
                /\ requires[f][i].name # b.name
                /\ requires[f][i].optional
                /\ CountEqual(requires[b], requires[f][i]) = 1
                /\ \E k \in DOMAIN requires[b] : requires[b][k] = requires[f][i]

(***************************************************************************)
(* The walk itself.                                                        *)
(***************************************************************************)
WalkNext ==
    \/ DfsBegin
    \/ DfsAdvance
    \/ DfsEnd

\* depth_first_search step by step; a call of dfs_visit in progress goes on
SpecWalk == InitPlain /\ [][WalkNext]_vars /\ WF_vars(DfsAdvance)

\* the keys of the nodes reachable() gives for a node of key id
KeyChildren(id) ==
    LET deps == requires[id.package]
        hits == { x \in (DOMAIN deps) \X Range(packages) : Matches(x[2], deps[x[1]]) }
    IN { [ package  |-> x[2],
           groups   |-> IF id = NodeId(SourceNode) THEN deps[x[1]].groups
                        ELSE id.groups,
           optional |-> IF id = NodeId(SourceNode) THEN deps[x[1]].optional
                        ELSE id.optional ] : x \in hits }

RECURSIVE KeyClosure(_)
\* the least set of keys that holds S and the keys of all children
KeyClosure(S) ==
    LET T == S \cup UNION { KeyChildren(id) : id \in S }
    IN IF T = S THEN S ELSE KeyClosure(T)

NoRepeat(seq) == \A i, j \in DOMAIN seq : seq[i] = seq[j] => i = j

ParentDepth(p, c) ==
    IF p.name = c.name THEN results[p].depth - 1 ELSE results[p].depth

\* the depth of c is one more than the greatest its parents count, at least 0
DepthRecurrence(c) ==
    results[c].depth = Max({0} \cup { 1 + ParentDepth(p, c) : p \in Parents(c) })

\* C17 as stated: in the aggregated result of any graph every package but
\* the root has the depth the recurrence gives from the final depths of its
\* parents.
C17_DepthRecurrenceOnAnyGraph ==
    DepthsAggregated =>
        \A c \in (DOMAIN results) \ {RootPackage} : DepthRecurrence(c)

\* C17 for the graphs the code does it for: when no package reaches itself,
\* every package but the root has the depth the recurrence gives from the
\* final depths of its parents.
C17_DepthRecurrenceOnAcyclicGraph ==
    (DepthsAggregated /\ Acyclic) =>
        \A c \in (DOMAIN results) \ {RootPackage} : DepthRecurrence(c)

\* an acyclic graph where a package is below a parent of its own name and
\* another package of depth 1 or more has two parents of different depths
C17_Witness ==
    /\ DepthsAggregated
    /\ Acyclic
    /\ \E b \in (DOMAIN results) \ {RootPackage} :
          \E p \in Parents(b) : p # b /\ p.name = b.name
    /\ \E c \in (DOMAIN results) \ {RootPackage} :
          /\ results[c].depth >= 1
          /\ \E p, q \in Parents(c) : results[p].depth # results[q].depth

(***************************************************************************)
(* aggregate_package_nodes on the buckets of the walk.                     *)
(***************************************************************************)
\* the nodes of package p
Bucket(p) == { id \in DOMAIN nodeDepth : id.package = p }

\* C18: aggregate_package_nodes gives each bucket the greatest depth of its
\* nodes, the union of their groups, and optional only when every node is
\* optional; afterwards every node of the bucket holds that depth and that
\* optional value, and so does package.optional.
C18_AggregateIsMaxUnionAll ==
    [][ pc = "aggregate" =>
          \A p \in { id.package : id \in DOMAIN nodeDepth } :
             /\ p \in DOMAIN results'
             /\ results'[p].depth = Max({ nodeDepth[id] : id \in Bucket(p) })
             /\ results'[p].groups = UNION { id.groups : id \in Bucket(p) }
             /\ pkgOptional'[p] = (\A id \in Bucket(p) : nodeOptional[id])
             /\ \A id \in Bucket(p) :
                   /\ nodeDepth'[id] = results'[p].depth
                   /\ nodeOptional'[id] = pkgOptional'[p]
      ]_vars

\* the buckets have been aggregated; one held two nodes that differed in
\* depth, in groups and in optional, and both now hold the aggregated values
C18_Witness ==
    /\ pc = "markers"
    /\ \E x, y \in DOMAIN nodeDepth :
          /\ x.package = y.package
          /\ x.optional /\ ~y.optional
          /\ x.groups # y.groups
          /\ LET before == VisitAll(dfs.sorted_nodes, dfs.back_edges)
             IN before[x] # before[y]
          /\ nodeDepth[x] = nodeDepth[y]
          /\ ~nodeOptional[x] /\ ~nodeOptional[y]
          /\ ~pkgOptional[x.package]
          /\ results[x.package].groups = x.groups \cup y.groups

(***************************************************************************)
(* The accumulator over a sequence of merges.                              *)
(***************************************************************************)
\* the step is lines 430-431 for package p
MergesDepthGroupsOf(p) ==
    /\ mg.phase = "package"
    /\ mg.new.order[mg.j] = p

\* C19: over any sequence of merges into one accumulator no package leaves
\* it, no group set loses a group and no depth goes down: where the new
\* result holds a package of the accumulator its depth becomes the greater
\* of the two and its groups the union, at no other step do they change, and
\* a package the new result does not hold is left as it is.
C19_AccumulatorOnlyGrows ==
    [][ \A p \in DOMAIN mg.acc :
          /\ p \in DOMAIN mg'.acc
          /\ mg.acc[p].groups \subseteq mg'.acc[p].groups
          /\ mg'.acc[p].depth >= mg.acc[p].depth
          /\ IF MergesDepthGroupsOf(p)
             THEN /\ mg'.acc[p].depth =
                        Max({mg.acc[p].depth, mg.new.info[p].depth})
                  /\ mg'.acc[p].groups =
                        mg.acc[p].groups \cup mg.new.info[p].groups
             ELSE /\ mg'.acc[p].depth = mg.acc[p].depth
                  /\ mg'.acc[p].groups = mg.acc[p].groups
          /\ (mg.new.order # << >> /\ p \notin Range(mg.new.order)) =>
                mg'.acc[p] = mg.acc[p]
      ]_vars

\* all overrides are merged; a package came with a greater depth and other
\* groups in an earlier rerun than in a later one and holds the greater depth
\* and both groups; another package is not in the last result
C19_Witness ==
    /\ mg.phase = "merged"
    /\ \E p \in DOMAIN mg.acc : \E k1, k2 \in DOMAIN mg.hist :
          /\ k1 < k2
          /\ p \in DOMAIN mg.hist[k1].info /\ p \in DOMAIN mg.hist[k2].info
          /\ mg.hist[k1].info[p].depth > mg.hist[k2].info[p].depth
          /\ mg.hist[k1].info[p].groups # mg.hist[k2].info[p].groups
          /\ mg.acc[p].depth = mg.hist[k1].info[p].depth
          /\ mg.acc[p].groups =
                mg.hist[k1].info[p].groups \cup mg.hist[k2].info[p].groups
    /\ \E q \in DOMAIN mg.acc : q \notin DOMAIN mg.hist[Len(mg.hist)].info

(***************************************************************************)
(* Base packages that declare one package twice, under different markers.  *)
(***************************************************************************)
\* the markers of the dependencies on c
DupMarkers ==
    { PyMarker("3.10"),
      MarkerIntersect(PyMarker("3.10"), ExtraMarker({"x"})),
      MarkerIntersect(PlatformMarker("linux"), ExtraMarker({"x"})) }

\* a dependency on c 1 of marker m
DepOnC(m, optional) == Dep("c", {}, {1}, m, {"main"}, optional, {})

\* the solver outputs [foo[x], foo, c] where foo requires c twice, once not
\* optional and once optional, under two different markers, and foo[x]
\* requires foo and c
InitDup ==
    /\ \E n \in 1..MaxRootDeps :
       \E rootTargets \in [1..n -> 1..3] :
       \E rootCtx \in [1..n -> Contexts] :
       \E m1, m2, m \in DupMarkers :
          /\ m1 # m2
          /\ packages = FeatureScheme
          /\ requires =
                [MakeRequires(FeatureScheme, rootTargets, rootCtx,
                              << << 2, 3 >>, << >>, << >> >>)
                   EXCEPT ![FeatureScheme[1]][2].marker = m,
                          ![FeatureScheme[2]] = << DepOnC(m1, FALSE), DepOnC(m2, TRUE) >>]
    /\ InitCommon

\* the aggregation of these solver outputs
SpecDup == InitDup /\ [][Next]_vars

\* no base package holds two dependencies that compare equal and carry
\* equal markers
NoDuplicates ==
    \A p \in Range(packages) :
        p.features = {} =>
            \A i, j \in DOMAIN requires[p] :
                (i # j /\ DepEq(requires[p][i], requires[p][j])) =>
                    requires[p][i].marker # requires[p][j].marker

\* C20: folding suppresses duplicates: no step of the merge of feature
\* packages takes the base packages from holding no two equal dependencies
\* of equal markers to holding two.
C20_FoldCreatesNoDuplicate ==
    [][ NoDuplicates => NoDuplicates' ]_vars

(***************************************************************************)
(* One call of PackageNode(package, packages, previous, dep, marker).      *)
(***************************************************************************)
\* the dependencies a node is constructed from
NodeDeps ==
    { RootDep(p, ctx, 1) : p \in {FeatureScheme[2], FeatureScheme[3]}, ctx \in Contexts }
      \cup { InnerDep(FeatureScheme[1], 1, FeatureScheme[3]) }

\* the arguments of the call: previous is a flag, dep and marker are << >>
\* (None) or a one-element sequence
NodeArgs ==
    [ package  : Range(FeatureScheme) \cup {RootPackage},
      previous : BOOLEAN,
      dep      : { << >> } \cup { << d >> : d \in NodeDeps },
      marker   : { << >>, << PyMarker("3.10") >>, << PlatformMarker("linux") >> } ]

InitNode ==
    /\ pc = "construct"
    /\ packages = FeatureScheme
    /\ requires = EmptyMap
    /\ pkgOptional = EmptyMap
    /\ dfs = DfsInit
    /\ nodeDepth = EmptyMap
    /\ nodeOptional = EmptyMap
    /\ resultOrder = << >>
    /\ results = EmptyMap
    /\ cm = CmInit(<< >>, EmptyMap)
    /\ foldIdx = 0
    /\ solvedOrder = << >>
    /\ run = 1
    /\ firstRun = EmptyMap
    /\ mg = NoMerge
    /\ \E a \in NodeArgs : built = [NoCall EXCEPT !.args = a]

\* PackageNode.__init__ (lines 285-314): the node with depth -1 (line 300),
\* or ValueError and no node (line 307)
Construct ==
    /\ pc = "construct"
    /\ LET a == built.args
           n == PackageNode(a.package, a.previous, a.dep, a.marker)
       IN IF n.error
          THEN /\ pc' = "ValueError"
               /\ built' = built
          ELSE /\ pc' = "constructed"
               /\ built' = [built EXCEPT !.node = n, !.depth = -1]
    /\ UNCHANGED << packages, requires, pkgOptional, dfs, nodeDepth, nodeOptional,
                    resultOrder, results, cm, foldIdx, solvedOrder, run, firstRun, mg >>

SpecNode == InitNode /\ [][Construct]_vars

\* C21: a node constructed without a predecessor has no groups, is optional
\* and has depth -1, whatever dependency was passed; one constructed with a
\* predecessor and a dependency has the groups and the optional flag of that
\* dependency; a construction with a predecessor and without a dependency
\* fails and gives no node.
C21_NodeConstruction ==
    LET a == built.args
        n == built.node
    IN /\ pc = "constructed" =>
             /\ built.depth = -1
             /\ ~a.previous => (n.groups = {} /\ n.optional)
             /\ a.previous =>
                   /\ a.dep # << >>
                   /\ n.groups = a.dep[1].groups
                   /\ n.optional = a.dep[1].optional
       /\ pc = "ValueError" =>
             (a.previous /\ a.dep = << >> /\ n = << >>)
       /\ (pc \in {"constructed", "ValueError"} /\ a.previous /\ a.dep = << >>) =>
             pc = "ValueError"

\* a node was constructed without a predecessor from a dependency of group
\* dev that is not optional, and has no groups and is optional
C21_Witness ==
    /\ pc = "constructed"
    /\ ~built.args.previous
    /\ built.args.dep # << >>
    /\ built.args.dep[1].groups = {"dev"}
    /\ ~built.args.dep[1].optional
    /\ built.node.groups = {}
    /\ built.node.optional

(***************************************************************************)
(* Dependencies of the project that belong to an extra.                    *)
(***************************************************************************)
\* the solver outputs [foo[x], foo, c] where each dependency of the project
\* is in no extra or in the extra x, in group main or dev and not optional
InitExtras ==
    /\ \E n \in 1..MaxRootDeps :
       \E rootTargets \in [1..n -> 1..3] :
       \E rootCtx \in [1..n -> { c \in Contexts : ~c.optional }] :
       \E rootExtras \in [1..n -> { {}, {"x"} }] :
       \E i1 \in InnerLists(1, 3), i2 \in InnerLists(2, 3), i3 \in InnerLists(3, 3) :
          /\ packages = FeatureScheme
          /\ requires =
                LET r == MakeRequires(FeatureScheme, rootTargets, rootCtx,
                                      << i1, i2, i3 >>)
                IN [r EXCEPT ![RootPackage] =
                      [k \in 1..n |-> [r[RootPackage][k] EXCEPT
                                          !.in_extras = rootExtras[k]]]]
    /\ InitCommon

\* the aggregation of these solver outputs
SpecExtras == InitExtras /\ [][Next]_vars

\* the walk has ended and the merge of feature packages has not begun
Walked == pc \in {"aggregate", "markers"}

\* the dependency of p that gave the edge p -> c its entry: the last that c
\* satisfies
LastMatch(p, c) ==
    Max({ k \in DOMAIN requires[p] : Matches(c, requires[p][k]) })

\* the entries of the table for the edges from the root
RootEntries ==
    { dfs.markers[c][RootPackage] :
        c \in { d \in DOMAIN dfs.markers : RootPackage \in DOMAIN dfs.markers[d] } }

\* e and f differ at most in the extra
SameButExtra(e, f) == EnvPy(e) = EnvPy(f) /\ EnvPlatform(e) = EnvPlatform(f)

\* C22: the table of edge markers holds, for an edge from a package other
\* than the root, the marker of the dependency without its extras, and for
\* an edge from the root the marker of the dependency, intersected with the
\* disjunction of its in_extras when it has some, extras kept; and a
\* computed group marker tells two environments that differ only in the
\* extra apart only where an entry of a root edge does.
C22_EdgeMarkers ==
    /\ Walked =>
          \A c \in DOMAIN dfs.markers : \A p \in DOMAIN dfs.markers[c] :
             LET d == requires[p][LastMatch(p, c)]
             IN /\ \E k \in DOMAIN requires[p] : Matches(c, requires[p][k])
                /\ dfs.markers[c][p] =
                     IF ~IsRoot(p) THEN WithoutExtras(d.marker)
                     ELSE IF d.in_extras # {}
                          THEN MarkerIntersect(d.marker, ExtraMarker(d.in_extras))
                          ELSE d.marker
    /\ \A c \in DOMAIN results : \A g \in DOMAIN results[c].markers :
          \A e \in results[c].markers[g] : \A f \in Env :
             (/\ SameButExtra(e, f)
              /\ \A r \in RootEntries : (e \in r) <=> (f \in r)) =>
                f \in results[c].markers[g]

\* the markers are calculated; the feature package requires c under a marker
\* with an extra and the entry of that edge has lost it; a dependency of the
\* project in the extra x gave an entry that holds only environments of
\* that extra; and a computed marker of c depends on the extra
C22_Witness ==
    /\ pc = "fold" /\ foldIdx = 1
    /\ \E c \in DOMAIN dfs.markers : \E p \in DOMAIN dfs.markers[c] :
          /\ ~IsRoot(p)
          /\ requires[p][LastMatch(p, c)].marker
                # WithoutExtras(requires[p][LastMatch(p, c)].marker)
    /\ \E r \in RootEntries : r # {} /\ r \subseteq ExtraMarker({"x"})
    /\ \E r \in RootEntries : WithoutExtras(r) = r
    /\ \E c \in DOMAIN results : \E g \in DOMAIN results[c].markers :
          /\ results[c].markers[g] # {}
          /\ results[c].markers[g] # WithoutExtras(results[c].markers[g])

(***************************************************************************)
(* Arrivals of the walk at a package.                                      *)
(***************************************************************************)
\* depth_first_search step by step, then the aggregation of its buckets
SpecArrive == InitPlain /\ [][WalkNext \/ AggregateNodes]_vars

\* dfs_visit is at a child of the node of its innermost call
AtChild ==
    /\ pc = "walk"
    /\ dfs.stack # << >>
    /\ dfs.stack[Len(dfs.stack)].i <= Len(dfs.stack[Len(dfs.stack)].children)

\* C23: every (package, groups, optional) key the walk can arrive at is a
\* node of its own and is expanded, and the aggregated groups of the package
\* hold the groups of each of its keys; every arrival at a child is recorded
\* as a back edge of the child's key, and the child is expanded unless its
\* key is visited already.
C23_ArrivalsByContext ==
    /\ [](pc = "markers" =>
            \A k \in KeyClosure({NodeId(SourceNode)}) :
               /\ k \in Range(dfs.expanded)
               /\ k \in DOMAIN nodeDepth
               /\ k.package \in DOMAIN results
               /\ k.groups \subseteq results[k.package].groups)
    /\ [][ AtChild =>
             LET top == dfs.stack[Len(dfs.stack)]
                 id  == NodeId(top.children[top.i])
             IN /\ dfs'.back_edges[id] =
                      Append(Get(dfs.back_edges, id, << >>), NodeId(top.node))
                /\ IF id \in dfs.visited
                   THEN /\ dfs'.expanded = dfs.expanded
                        /\ Len(dfs'.stack) = Len(dfs.stack)
                   ELSE /\ dfs'.expanded = Append(dfs.expanded, id)
                        /\ Len(dfs'.stack) = Len(dfs.stack) + 1
       ]_vars

\* the buckets are aggregated; one package was reached in group main as
\* optional and in group dev as not optional: two nodes, both expanded, and
\* the package has both groups; and some key was arrived at more than once
C23_Witness ==
    /\ pc = "markers"
    /\ \E x, y \in Range(dfs.expanded) :
          /\ x.package = y.package
          /\ x.groups = {"main"} /\ y.groups = {"dev"}
          /\ x.optional /\ ~y.optional
          /\ results[x.package].groups = {"main", "dev"}
    /\ \E k \in DOMAIN dfs.back_edges : Len(dfs.back_edges[k]) >= 2

(***************************************************************************)
(* The order of the sorted node list.                                      *)
(***************************************************************************)
\* where x stands in seq
IndexIn(seq, x) == CHOOSE i \in DOMAIN seq : seq[i] = x

\* no key of the walk reaches itself
NoKeyCycle ==
    \A x \in Range(dfs.sorted_nodes) : x \notin KeyClosure(KeyChildren(x))

\* C24: when the graph has no cycle, every node stands in the sorted node
\* list before each node it was recorded as a parent of, and so the depth
\* visit() gave each node is the one its parents' final depths give.
C24_ParentsPrecedeChildren ==
    (pc = "aggregate" /\ NoKeyCycle) =>
        \A c \in DOMAIN dfs.back_edges :
           /\ \A k \in DOMAIN dfs.back_edges[c] :
                 /\ dfs.back_edges[c][k] \in Range(dfs.sorted_nodes)
                 /\ IndexIn(dfs.sorted_nodes, dfs.back_edges[c][k])
                      < IndexIn(dfs.sorted_nodes, c)
           /\ nodeDepth[c] = Visit(c, dfs.back_edges[c], nodeDepth)

\* the walk of a graph without a cycle has ended; a node has two parents of
\* different depths, and the one met last in the walk stands first
C24_Witness ==
    /\ pc = "aggregate"
    /\ NoKeyCycle
    /\ \E c \in DOMAIN dfs.back_edges :
          /\ Len(dfs.back_edges[c]) = 2
          /\ nodeDepth[dfs.back_edges[c][1]] # nodeDepth[dfs.back_edges[c][2]]
          /\ IndexIn(dfs.sorted_nodes, dfs.back_edges[c][2])
               < IndexIn(dfs.sorted_nodes, dfs.back_edges[c][1])
          /\ nodeDepth[c] >= 2

(***************************************************************************)
(* The buckets of depth_first_search.                                      *)
(***************************************************************************)
\* the buckets number b1 and b2 of cn hold x and y
InBuckets(cn, x, b1, y, b2) ==
    /\ x \in Range(cn[b1])
    /\ y \in Range(cn[b2])

\* every node is in one bucket and no other, and the buckets stand in the
\* order of their first nodes in the sorted list
BucketsPartitionInOrder(cn, sorted) ==
    /\ \A x \in Range(sorted) :
          \E b \in DOMAIN cn :
             /\ Cardinality({ k \in DOMAIN cn[b] : cn[b][k] = x }) = 1
             /\ \A c \in DOMAIN cn : x \in Range(cn[c]) => c = b
    /\ \A b \in DOMAIN cn :
          /\ cn[b] # << >>
          /\ Range(cn[b]) \subseteq Range(sorted)
          /\ \A k \in DOMAIN cn[b] :
                IndexIn(sorted, cn[b][1]) <= IndexIn(sorted, cn[b][k])
    /\ \A b1, b2 \in DOMAIN cn :
          b1 < b2 => IndexIn(sorted, cn[b1][1]) < IndexIn(sorted, cn[b2][1])

\* the walk has ended and its buckets are those of the aggregation
Bucketed == pc \in {"aggregate", "markers"}

\* C25 as stated: all nodes of one base name, those of the feature packages
\* of a package included, are in one bucket, every node is in exactly one
\* bucket, and the buckets stand in the order of their first nodes.
C25_BucketsByBaseName ==
    Bucketed =>
        LET cn == CombinedNodes(dfs.sorted_nodes)
        IN /\ BucketsPartitionInOrder(cn, dfs.sorted_nodes)
           /\ \A x, y \in Range(dfs.sorted_nodes) : \A b1, b2 \in DOMAIN cn :
                 (InBuckets(cn, x, b1, y, b2) /\ x.package.name = y.package.name)
                    => b1 = b2

\* C25 as the code has it: the key of a bucket is the package (name,
\* version and features, as repr gives them), so all nodes of one package
\* are in one bucket and a feature package has a bucket apart from its base
\* package; every node is in exactly one bucket; the buckets stand in the
\* order of their first nodes, and the results are made one per bucket in
\* that order.
C25_BucketsByPackage ==
    Bucketed =>
        LET cn == CombinedNodes(dfs.sorted_nodes)
        IN /\ BucketsPartitionInOrder(cn, dfs.sorted_nodes)
           /\ \A x, y \in Range(dfs.sorted_nodes) : \A b1, b2 \in DOMAIN cn :
                 InBuckets(cn, x, b1, y, b2) =>
                    ((x.package = y.package) <=> (b1 = b2))
           /\ pc = "markers" =>
                 resultOrder = [b \in DOMAIN cn |-> cn[b][1].package]

\* the buckets are aggregated; a feature package and its base package were
\* both reached and have a result each; a package has two nodes that do
\* not stand side by side in the sorted list
C25_Witness ==
    /\ pc = "markers"
    /\ \E x, y \in Range(dfs.sorted_nodes) :
          /\ x.package.name = y.package.name
          /\ x.package.features # {} /\ y.package.features = {}
          /\ x.package \in DOMAIN results /\ y.package \in DOMAIN results
    /\ \E x, y \in Range(dfs.sorted_nodes) :
          /\ x # y /\ x.package = y.package
          /\ IndexIn(dfs.sorted_nodes, x) + 1 < IndexIn(dfs.sorted_nodes, y)

(***************************************************************************)
(* The markers _solve_in_compatibility_mode returns.                       *)
(***************************************************************************)
\* _solve_in_compatibility_mode from its loop to its return
SpecCompat == InitMerge /\ [][MergeNext \/ ReplaceEquivalentMarkers]_vars

\* m says nothing but of the python version
MentionsOnlyPython(m) ==
    \A e \in m : \A f \in Env : EnvPy(f) = EnvPy(e) => f \in m

\* m allows every python version of the constraint
AllowsAllOf(m, python_constraint) ==
    \A v \in python_constraint : \E e \in m : EnvPy(e) = v

\* C26: when the merged mapping is returned, each group marker that mentions
\* only the python version and allows every version of the python
\* constraint of the project has become AnyMarker, every other marker is the
\* one the merge gave, and depths, groups and packages are as merged; so
\* the mapping returned keeps no such marker but AnyMarker itself.
C26_EquivalentMarkersBecomeAny ==
    /\ [][ (mg.phase = "merged" /\ mg'.phase = "returned") =>
             /\ DOMAIN mg'.acc = DOMAIN mg.acc
             /\ \A p \in DOMAIN mg.acc :
                   /\ mg'.acc[p].depth = mg.acc[p].depth
                   /\ mg'.acc[p].groups = mg.acc[p].groups
                   /\ DOMAIN mg'.acc[p].markers = DOMAIN mg.acc[p].markers
                   /\ \A g \in DOMAIN mg.acc[p].markers :
                         LET m == mg.acc[p].markers[g]
                         IN mg'.acc[p].markers[g] =
                              IF MentionsOnlyPython(m) /\ AllowsAllOf(m, mg'.python)
                              THEN AnyMarker ELSE m
       ]_vars
    /\ [](mg.phase = "returned" =>
            \A p \in DOMAIN mg.acc : \A g \in DOMAIN mg.acc[p].markers :
               LET m == mg.acc[p].markers[g]
               IN (MentionsOnlyPython(m) /\ AllowsAllOf(m, mg.python)) => m = AnyMarker)

\* the mapping is returned for a project of python 3.10 only; a marker that
\* was python 3.10 has become AnyMarker, and a marker that names a platform
\* is kept
C26_Witness ==
    /\ mg.phase = "returned"
    /\ mg.python = {"3.10"}
    /\ PyMarker("3.10") \in mg.equivalent
    /\ \E p \in DOMAIN mg.acc : \E g \in DOMAIN mg.acc[p].markers :
          mg.acc[p].markers[g] = AnyMarker
    /\ \E p \in DOMAIN mg.acc : \E g \in DOMAIN mg.acc[p].markers :
          /\ mg.acc[p].markers[g] # {}
          /\ ~MentionsOnlyPython(mg.acc[p].markers[g])

(***************************************************************************)
(* The passes of calculate_markers.                                        *)
(***************************************************************************)
\* C27: the markers only grow from pass to pass. A pass assigns the markers
\* of each package once, so the marker a package has before its assignment
\* is the one of the pass before and the one after it is the one of this
\* pass: at every step of calculate_markers every (package, group) that has
\* a marker keeps its key and accepts afterwards every environment it
\* accepted before.
C27_MarkersOnlyGrow ==
    [][ pc = "markers" =>
          \A p \in DOMAIN results : \A g \in DOMAIN results[p].markers :
             /\ p \in DOMAIN results'
             /\ g \in DOMAIN results'[p].markers
             /\ results[p].markers[g] \subseteq results'[p].markers[g]
      ]_vars

\* the second pass is at a package whose marker of the first pass is not
\* empty and is about to get environments it did not hold
C27_Witness ==
    /\ pc = "markers"
    /\ cm.passes = 2
    /\ cm.k > 0
    /\ LET package == cm.order[cm.k]
           c == CalcPackage(package, results, dfs.markers)
       IN \E g \in DOMAIN results[package].markers :
             /\ results[package].markers[g] # {}
             /\ results[package].markers[g] # c.markers[g]
             /\ results[package].markers[g] \subseteq c.markers[g]

\* C28: calculate_markers assigns markers and nothing else: at each of its
\* steps the packages of the mapping, their depths and their groups and the
\* table of edge markers are what they were, and the root has no markers
\* before, during and after.
C28_OnlyMarkersChange ==
    /\ [][ pc = "markers" =>
             /\ DOMAIN results' = DOMAIN results
             /\ \A p \in DOMAIN results :
                   /\ results'[p].depth = results[p].depth
                   /\ results'[p].groups = results[p].groups
             /\ dfs'.markers = dfs.markers
             /\ resultOrder' = resultOrder
       ]_vars
    /\ [](RootPackage \in DOMAIN results =>
            /\ results[RootPackage].markers = EmptyMap
            /\ results[RootPackage].groups = {})

\* calculate_markers has returned after two passes; a package of two groups
\* has a marker for each, another package has an empty marker, and the root
\* has none
C28_Witness ==
    /\ pc = "fold" /\ foldIdx = 1
    /\ cm.passes = 2
    /\ results[RootPackage].markers = EmptyMap
    /\ \E p \in DOMAIN results :
          /\ results[p].groups = {"main", "dev"}
          /\ DOMAIN results[p].markers = {"main", "dev"}
          /\ results[p].depth >= 1
    /\ \E p \in DOMAIN results : \E g \in DOMAIN results[p].markers :
          results[p].markers[g] = {}

(***************************************************************************)
(* calculate_markers called with a table that lacks a package.             *)
(***************************************************************************)
\* the table without the entry of package p
WithoutEntry(table, p) == [q \in (DOMAIN table) \ {p} |-> table[q]]

\* calculate_markers(packages, markers) is called with the mapping the
\* aggregation of a solver output [a, b, c] gives and with the table of its
\* walk, from which the entry of one package may have been taken (the root
\* stands for none)
InitCalc ==
    /\ \E n \in 1..MaxRootDeps :
       \E rootTargets \in [1..n -> 1..3] :
       \E rootCtx \in [1..n -> { c \in Contexts : ~c.optional }] :
       \E i1 \in ForwardLists(1, 3), i2 \in ForwardLists(2, 3) :
       \E orphan \in Range(PlainScheme) \cup {RootPackage} :
          LET reqs == MakeRequires(PlainScheme, rootTargets, rootCtx,
                                   << i1, i2, << >> >>)
              d    == DfsVisit(SourceNode, PlainScheme, reqs)
              dep  == VisitAll(d.sorted_nodes, d.back_edges)
              opt  == [id \in Range(d.sorted_nodes) |-> id.optional]
              a    == AggregateAll(CombinedNodes(d.sorted_nodes), dep, opt)
          IN /\ orphan \in DOMAIN a.info
             /\ packages = PlainScheme
             /\ requires = reqs
             /\ dfs = [d EXCEPT !.markers = WithoutEntry(@, orphan)]
             /\ nodeDepth = [id \in DOMAIN dep |-> a.info[id.package].depth]
             /\ nodeOptional = [id \in DOMAIN opt |-> a.optional[id.package]]
             /\ pkgOptional = a.optional
             /\ resultOrder = a.order
             /\ results = a.info
             /\ cm = CmInit(a.order, a.info)
    /\ pc = "markers"
    /\ foldIdx = 0
    /\ solvedOrder = << >>
    /\ run = 1
    /\ firstRun = EmptyMap
    /\ mg = NoMerge
    /\ built = NoCall

\* one call of calculate_markers
SpecCalc == InitCalc /\ [][CmLoopTest \/ CmPackage]_vars

\* C29: a package of depth 0 or more that has no parent in the table of
\* edge markers has, when calculate_markers returns, a marker for each of
\* its groups and each is the empty marker.
C29_NoParentGivesEmptyMarkers ==
    pc = "fold" =>
        \A p \in DOMAIN results :
            (results[p].depth >= 0 /\ Parents(p) = {}) =>
                /\ DOMAIN results[p].markers = results[p].groups
                /\ \A g \in results[p].groups : results[p].markers[g] = EmptyMarker

\* calculate_markers has returned; a package of depth 1 and two groups has
\* no parent in the table and two empty markers, and a package it is a
\* parent of has a marker that is not empty
C29_Witness ==
    /\ pc = "fold"
    /\ \E p \in DOMAIN results :
          /\ results[p].depth >= 1
          /\ Parents(p) = {}
          /\ results[p].groups = {"main", "dev"}
          /\ \A g \in results[p].groups : results[p].markers[g] = EmptyMarker
          /\ \E c \in DOMAIN results :
                /\ p \in Parents(c)
                /\ \E g \in DOMAIN results[c].markers : results[c].markers[g] # {}

(***************************************************************************)
(* The number of passes of calculate_markers.                              *)
(***************************************************************************)
\* every package but the root has a depth of 0 or more
AllDepthsSet == \A p \in DOMAIN results : IsRoot(p) \/ results[p].depth >= 0

\* no recorded edge joins two packages of one base name
NoSameNameEdge == \A c \in DOMAIN dfs.markers : \A p \in Parents(c) : p.name # c.name

\* a pass has ended
PassEnded == pc = "markers" /\ cm.k = 0 /\ cm.passes >= 1

\* C30: when every package but the root has a depth of 0 or more, the
\* outer loop of calculate_markers runs at most two passes whatever the
\* graph: at the end of the first pass every package of depth 0 or more
\* has a marker for each of its groups and for nothing else, so no parent
\* is found incomplete after it; and on a graph without a cycle and
\* without an edge between packages of one base name it runs exactly one
\* pass.
C30_AtMostTwoPasses ==
    AllDepthsSet =>
        /\ pc \in {"markers", "fold"} => cm.passes <= 2
        /\ (PassEnded \/ pc = "fold") =>
               \A p \in DOMAIN results :
                   results[p].depth >= 0 =>
                       DOMAIN results[p].markers = results[p].groups
        /\ (pc = "markers" /\ cm.passes = 2) => ~cm.has_incomplete
        /\ (pc = "fold" /\ Acyclic /\ NoSameNameEdge) => cm.passes = 1

\* calculate_markers has returned after two passes over a graph with a
\* cycle between packages of different names on which every package but
\* the root has a depth of 0 or more and two packages have the same depth
C30_Witness ==
    /\ pc = "fold"
    /\ foldIdx = 1
    /\ AllDepthsSet
    /\ cm.passes = 2
    /\ ~cm.has_incomplete
    /\ \E p, c \in DOMAIN results :
          /\ p # c
          /\ p.name # c.name
          /\ p \in Parents(c)
          /\ c \in Descendants(Children(c), Cardinality(DOMAIN results))
          /\ results[p].depth >= results[c].depth

(***************************************************************************)
(* The groups along the recorded edges.                                    *)
(***************************************************************************)
\* C31: for every entry (child, parent) of the table of edge markers the
\* parent is a key of the aggregated result, and when the parent is not
\* the root its aggregated groups are among the aggregated groups of the
\* child; so calculate_markers finds packages[parent] and
\* transitive_marker[group] at every lookup and never fails.
C31_ParentGroupsWithinChildGroups ==
    /\ pc # "MarkersKeyError"
    /\ pc = "markers" =>
          /\ \A c \in DOMAIN dfs.markers : \A p \in Parents(c) :
                /\ c \in DOMAIN results
                /\ p \in DOMAIN results
                /\ ~IsRoot(p) => results[p].groups \subseteq results[c].groups
          /\ cm.k > 0 => ~CalcPackage(cm.order[cm.k], results, dfs.markers).keyError

\* calculate_markers is in its first pass at a package of two groups that
\* has a parent other than the root with one of the two groups only
C31_Witness ==
    /\ pc = "markers"
    /\ cm.passes = 1
    /\ cm.k > 0
    /\ LET c == cm.order[cm.k]
       IN /\ results[c].groups = {"main", "dev"}
          /\ \E p \in Parents(c) :
                /\ ~IsRoot(p)
                /\ results[p].groups # {}
                /\ results[p].groups # results[c].groups

(***************************************************************************)
(* Where a node takes its groups and its optional flag from.               *)
(***************************************************************************)
\* the dependencies of the project that lead to package p
RootDepsLeadingTo(p) ==
    { k \in DOMAIN requires[RootPackage] : p \in ReachedThrough(k) }

\* C32: every node but the source has the groups and the optional flag of
\* a dependency of the project that leads to its package, whatever the
\* dependencies on the way carry, and every dependency of the project gives
\* each package it leads to a node of its groups and optional flag; so the
\* aggregated groups of a package are the union of the groups of the
\* dependencies of the project that lead to it.
C32_GroupsComeFromRootDependencies ==
    Aggregated =>
        /\ \A id \in Range(dfs.sorted_nodes) :
              \/ id = NodeId(SourceNode)
              \/ \E k \in RootDepsLeadingTo(id.package) :
                    /\ id.groups = requires[RootPackage][k].groups
                    /\ id.optional = requires[RootPackage][k].optional
        /\ \A p \in Range(packages) : \A k \in RootDepsLeadingTo(p) :
              [package |-> p,
               groups |-> requires[RootPackage][k].groups,
               optional |-> requires[RootPackage][k].optional]
                  \in Range(dfs.sorted_nodes)
        /\ \A p \in (DOMAIN results) \ {RootPackage} :
              results[p].groups =
                  UNION { requires[RootPackage][k].groups : k \in RootDepsLeadingTo(p) }

\* after the aggregation: a package that only a dependency of a package
\* selects, a dependency of group main, is reached through a dependency of
\* the project of group dev alone and has the group dev alone; another is
\* reached through dependencies of the project of both groups and has both
C32_Witness ==
    /\ Aggregated
    /\ \E p \in (DOMAIN results) \ {RootPackage} :
          /\ \A k \in DOMAIN requires[RootPackage] :
                p \notin DepTargets(requires[RootPackage][k])
          /\ \E q \in Parents(p) : \E j \in DOMAIN requires[q] :
                /\ p \in DepTargets(requires[q][j])
                /\ requires[q][j].groups = {"main"}
          /\ results[p].groups = {"dev"}
    /\ \E p \in (DOMAIN results) \ {RootPackage} :
          results[p].groups = {"main", "dev"}

(***************************************************************************)
(* One entry per edge in the table of edge markers.                        *)
(***************************************************************************)
\* the walk of the solver outputs in which a package requires another twice
SpecDupWalk == InitDup /\ [][WalkNext]_vars

\* the pairs (child, parent) that have an entry in table
Entries(table) ==
    UNION { { << c, p >> : p \in DOMAIN table[c] } : c \in DOMAIN table }

\* the loop of dfs_visit is about to record an edge
AtEdge ==
    /\ pc = "walk"
    /\ dfs.stack # << >>
    /\ dfs.stack[Len(dfs.stack)].i <= Len(dfs.stack[Len(dfs.stack)].children)

\* C33: the table of edge markers holds one marker for each pair (child
\* package, parent package). Every step of dfs_visit that records an edge
\* sets the entry of its pair to the marker of the dependency at hand,
\* whatever the entry held, and leaves every other entry as it is; so when
\* several dependencies of a parent select a child, or the edge is walked
\* under several node contexts, the entry at the end of the walk is the
\* marker of the last dependency of the parent that selects the child, and
\* not a union.
C33_LastWriteWins ==
    /\ [][ AtEdge =>
             LET top  == dfs.stack[Len(dfs.stack)]
                 node == top.node
                 out  == top.children[top.i]
             IN /\ Entries(dfs'.markers) =
                      Entries(dfs.markers) \cup { << out.package, node.package >> }
                /\ dfs'.markers[out.package][node.package] = EdgeMarker(node, out)
                /\ \A pr \in Entries(dfs.markers) :
                      pr # << out.package, node.package >> =>
                          dfs'.markers[pr[1]][pr[2]] = dfs.markers[pr[1]][pr[2]]
         ]_vars
    /\ []( (pc = "walk" /\ dfs.stack = << >>) =>
              \A pr \in Entries(dfs.markers) :
                  LET d == requires[pr[2]][LastMatch(pr[2], pr[1])]
                  IN dfs.markers[pr[1]][pr[2]] =
                        IF IsRoot(pr[2]) THEN ChildMarker(SourceNode, d)
                        ELSE WithoutExtras(d.marker) )

\* dfs_visit has returned; a package other than the root requires a child
\* twice under markers that differ without their extras, was walked under
\* two node contexts, and the entry of the edge is the marker of the second
\* dependency and does not hold the first; the project requires a package
\* twice and the entry of that edge is the marker of the second dependency
C33_Witness ==
    /\ pc = "walk"
    /\ dfs.stack = << >>
    /\ \E pr \in Entries(dfs.markers) :
          LET c == pr[1]
              p == pr[2]
          IN /\ ~IsRoot(p)
             /\ \E k1, k2 \in DOMAIN requires[p] :
                   /\ k1 < k2
                   /\ Matches(c, requires[p][k1])
                   /\ Matches(c, requires[p][k2])
                   /\ dfs.markers[c][p] = WithoutExtras(requires[p][k2].marker)
                   /\ ~(WithoutExtras(requires[p][k1].marker) \subseteq dfs.markers[c][p])
             /\ Cardinality({ id \in Range(dfs.sorted_nodes) : id.package = p }) = 2
    /\ \E c \in DOMAIN dfs.markers :
          /\ RootPackage \in DOMAIN dfs.markers[c]
          /\ Len(requires[RootPackage]) = 2
          /\ Matches(c, requires[RootPackage][1])
          /\ Matches(c, requires[RootPackage][2])
          /\ dfs.markers[c][RootPackage] = requires[RootPackage][2].marker
          /\ dfs.markers[c][RootPackage] # requires[RootPackage][1].marker

====
